---- MODULE Spec2Model ----
(***************************************************************************)
(* Model of json-to-sql-migration: the diff engine (generateDatabaseDiff)  *)
(* and the migration synthesizer (generateInitialMigration,                *)
(* generateMigrationFromDiff) of src/unnamed/part_002.                     *)
(*                                                                         *)
(* JSON values are tagged records; SQL text is a sequence of statement     *)
(* records, one record per statement, whose fields are the parts of the    *)
(* statement that the code interpolates into the text.                     *)
(***************************************************************************)
EXTENDS Integers, Sequences, FiniteSets, TLC

(***************************************************************************)
(* Bounds of the model.                                                    *)
(***************************************************************************)
MaxTables == 2
MaxFields == 2
MaxClock == 2

(***************************************************************************)
(* State.                                                                  *)
(*   modelA, modelB   the old and the new snapshot the caller holds        *)
(*   target           the dialect the caller migrates                      *)
(*   rejects          the inputs on which the external compiler            *)
(*                    (json-to-sql-parser) fails                           *)
(*   clock            the reading of the clock, Date.now()                 *)
(*   pc               the last call made                                   *)
(*   initial          the outcome of generateInitialMigration              *)
(*   dbDiff           the result of generateDatabaseDiff                   *)
(*   migration        the outcome of generateMigrationFromDiff             *)
(***************************************************************************)
VARIABLES modelA, modelB, target, rejects, clock, pc, initial, dbDiff, migration

vars == <<modelA, modelB, target, rejects, clock, pc, initial, dbDiff, migration>>

(***************************************************************************)
(* JavaScript values.                                                      *)
(***************************************************************************)
Undefined == [t |-> "undefined"]
JNull == [t |-> "null"]
JBool(b) == [t |-> "boolean", b |-> b]
JNum(n) == [t |-> "number", n |-> n]
JStr(s) == [t |-> "string", s |-> s]
JObj(keys, vals) == [t |-> "object", isArray |-> FALSE, keys |-> keys, vals |-> vals]
JArr(vals) == [t |-> "object", isArray |-> TRUE,
               keys |-> [i \in 1..Len(vals) |-> ToString(i - 1)], vals |-> vals]

\* typeof x (typeof null is "object")
TypeOf(x) == IF x.t = "null" THEN "object" ELSE x.t

\* x == null (loose): null or undefined
IsNullish(x) == x.t \in {"undefined", "null"}

\* Boolean(x)
Truthy(x) ==
    CASE x.t = "undefined" -> FALSE
      [] x.t = "null" -> FALSE
      [] x.t = "boolean" -> x.b
      [] x.t = "number" -> x.n # 0
      [] x.t = "string" -> x.s # ""
      [] OTHER -> TRUE

\* a === b. Two objects are identical only when they are the same reference;
\* the snapshots handed to the diff are separate documents, so object operands
\* are never identical here. (deepEqual answers the same for one object
\* compared with itself through its structural branch.)
StrictEq(a, b) ==
    /\ a.t = b.t
    /\ a.t # "object"
    /\ a = b

HasKey(o, k) == \E i \in 1..Len(o.keys) : o.keys[i] = k

\* o[k]; undefined when the key is absent
Get(o, k) ==
    IF HasKey(o, k)
    THEN o.vals[CHOOSE i \in 1..Len(o.keys) : o.keys[i] = k]
    ELSE Undefined

\* mutant: equality of references only
deepEqualByReference(a, b) == StrictEq(a, b)

RECURSIVE deepEqual(_, _)
deepEqual(a, b) ==
    IF StrictEq(a, b) THEN TRUE
    ELSE IF IsNullish(a) \/ IsNullish(b) THEN FALSE
    ELSE IF TypeOf(a) # TypeOf(b) THEN FALSE
    ELSE IF TypeOf(a) = "object"
         THEN /\ Len(a.keys) = Len(b.keys)
              /\ \A i \in 1..Len(a.keys) :
                    /\ HasKey(b, a.keys[i])
                    /\ deepEqual(a.vals[i], Get(b, a.keys[i]))
         ELSE FALSE

(***************************************************************************)
(* The data model (src/unnamed/part_003: dataModelSchema).                 *)
(***************************************************************************)
Field(name, type, nonNullable, primaryKey, default, foreignKey) ==
    [name |-> name, type |-> type, nonNullable |-> nonNullable,
     primaryKey |-> primaryKey, default |-> default, foreignKey |-> foreignKey]

AccessControl(r, c, u, d) == [read |-> r, create |-> c, update |-> u, delete |-> d]

Table(name, fields, ac) == [name |-> name, fields |-> fields, accessControl |-> ac]

\* the accessControl object as a JavaScript object
AccessControlObject(ac) ==
    JObj(<<"read", "create", "update", "delete">>,
         <<ac.read, ac.create, ac.update, ac.delete>>)

Operations == <<"read", "create", "update", "delete">>

DataModel(tables) == [tables |-> tables]

(***************************************************************************)
(* Helpers on sequences.                                                   *)
(***************************************************************************)
RECURSIVE Flatten(_)
Flatten(ss) == IF ss = <<>> THEN <<>> ELSE Head(ss) \o Flatten(Tail(ss))

Names(s) == {s[i].name : i \in 1..Len(s)}

\* new Map(xs.map((x) => [x.name, x])): a later entry of the same name wins
MapHas(xs, name) == \E i \in 1..Len(xs) : xs[i].name = name

MapGet(xs, name) ==
    xs[CHOOSE i \in 1..Len(xs) :
          /\ xs[i].name = name
          /\ \A j \in (i + 1)..Len(xs) : xs[j].name # name]

(***************************************************************************)
(* Diff engine.                                                            *)
(***************************************************************************)
\* one recorded from/to pair; an attribute that is not recorded is Undefined
Change(from, to) == [t |-> "object", from |-> from, to |-> to]

\* a ?? false
OrFalse(a) == IF IsNullish(a) THEN JBool(FALSE) ELSE a

FieldChangeOf(oldField, newField) ==
    [type |-> IF oldField.type # newField.type
              THEN Change(oldField.type, newField.type) ELSE Undefined,
     nonNullable |-> IF ~StrictEq(oldField.nonNullable, newField.nonNullable)
                     THEN Change(OrFalse(oldField.nonNullable), OrFalse(newField.nonNullable))
                     ELSE Undefined,
     primaryKey |-> IF ~StrictEq(oldField.primaryKey, newField.primaryKey)
                    THEN Change(OrFalse(oldField.primaryKey), OrFalse(newField.primaryKey))
                    ELSE Undefined,
     default |-> IF ~deepEqual(oldField.default, newField.default)
                 THEN Change(oldField.default, newField.default) ELSE Undefined,
     foreignKey |-> IF ~deepEqual(oldField.foreignKey, newField.foreignKey)
                    THEN Change(oldField.foreignKey, newField.foreignKey) ELSE Undefined]

\* Object.keys(changes).length
ChangeCount(changes, keys) == Cardinality({k \in keys : changes[k] # Undefined})

FieldAttributes == {"type", "nonNullable", "primaryKey", "default", "foreignKey"}

RECURSIVE FieldsModified(_, _)
FieldsModified(oldFields, newFields) ==
    IF newFields = <<>> THEN <<>>
    ELSE LET newField == Head(newFields)
             rest == FieldsModified(oldFields, Tail(newFields))
         IN IF ~MapHas(oldFields, newField.name) THEN rest
            ELSE LET changes == FieldChangeOf(MapGet(oldFields, newField.name), newField)
                 IN IF ChangeCount(changes, FieldAttributes) > 0
                    THEN <<[field |-> newField, changes |-> changes]>> \o rest
                    ELSE rest

generateFieldDiff(oldFields, newFields) ==
    [fieldsAdded |-> SelectSeq(newFields, LAMBDA f : ~MapHas(oldFields, f.name)),
     fieldsRemoved |-> SelectSeq(oldFields, LAMBDA f : ~MapHas(newFields, f.name)),
     fieldsModified |-> FieldsModified(oldFields, newFields)]

\* mutant: every table of both snapshots recorded, changed or not
TablesModifiedUnconditionally(oldTables, newTables) ==
    LET both == SelectSeq(newTables, LAMBDA tb : MapHas(oldTables, tb.name))
    IN [i \in 1..Len(both) |->
           LET oldTable == MapGet(oldTables, both[i].name)
               fieldChanges == generateFieldDiff(oldTable.fields, both[i].fields)
           IN [tableName |-> both[i].name,
               fieldsAdded |-> fieldChanges.fieldsAdded,
               fieldsRemoved |-> fieldChanges.fieldsRemoved,
               fieldsModified |-> fieldChanges.fieldsModified,
               accessControlChanged |->
                   ~deepEqual(AccessControlObject(oldTable.accessControl),
                              AccessControlObject(both[i].accessControl))]]

RECURSIVE TablesModified(_, _)
TablesModified(oldTables, newTables) ==
    IF newTables = <<>> THEN <<>>
    ELSE LET newTable == Head(newTables)
             rest == TablesModified(oldTables, Tail(newTables))
         IN IF ~MapHas(oldTables, newTable.name) THEN rest
            ELSE LET oldTable == MapGet(oldTables, newTable.name)
                     fieldChanges == generateFieldDiff(oldTable.fields, newTable.fields)
                     accessControlChanged ==
                         ~deepEqual(AccessControlObject(oldTable.accessControl),
                                    AccessControlObject(newTable.accessControl))
                 IN IF \/ Len(fieldChanges.fieldsAdded) > 0
                       \/ Len(fieldChanges.fieldsRemoved) > 0
                       \/ Len(fieldChanges.fieldsModified) > 0
                       \/ accessControlChanged
                    THEN <<[tableName |-> newTable.name,
                            fieldsAdded |-> fieldChanges.fieldsAdded,
                            fieldsRemoved |-> fieldChanges.fieldsRemoved,
                            fieldsModified |-> fieldChanges.fieldsModified,
                            accessControlChanged |-> accessControlChanged]>> \o rest
                    ELSE rest

\* mutant: the added tables looked up in the map of the new tables
generateTableDiffWrongMap(oldTables, newTables) ==
    [added |-> SelectSeq(newTables, LAMBDA tb : ~MapHas(newTables, tb.name)),
     removed |-> SelectSeq(oldTables, LAMBDA tb : ~MapHas(newTables, tb.name)),
     modified |-> TablesModified(oldTables, newTables)]

generateTableDiff(oldTables, newTables) ==
    [added |-> SelectSeq(newTables, LAMBDA tb : ~MapHas(oldTables, tb.name)),
     removed |-> SelectSeq(oldTables, LAMBDA tb : ~MapHas(newTables, tb.name)),
     modified |-> TablesModified(oldTables, newTables)]

\* the permissive default, the "from" state of a table that is new
defaultCondition == JBool(TRUE)

\* mutant: a new table starts from the closed condition
NewTableEntryFromFalse(newTable) ==
    [tableName |-> newTable.name,
     changes |-> [read |-> Change(JBool(FALSE), newTable.accessControl.read),
                  create |-> Change(JBool(FALSE), newTable.accessControl.create),
                  update |-> Change(JBool(FALSE), newTable.accessControl.update),
                  delete |-> Change(JBool(FALSE), newTable.accessControl.delete)]]

\* the entry of a table that the old snapshot does not have
NewTableEntry(newTable) ==
    [tableName |-> newTable.name,
     changes |-> [read |-> Change(defaultCondition, newTable.accessControl.read),
                  create |-> Change(defaultCondition, newTable.accessControl.create),
                  update |-> Change(defaultCondition, newTable.accessControl.update),
                  delete |-> Change(defaultCondition, newTable.accessControl.delete)]]

\* mutant: the four operations recorded whether they differ or not
AccessControlChangeOfAll(oldAc, newAc) ==
    [op \in {"read", "create", "update", "delete"} |-> Change(oldAc[op], newAc[op])]

AccessControlChangeOf(oldAc, newAc) ==
    [op \in {"read", "create", "update", "delete"} |->
        IF ~deepEqual(oldAc[op], newAc[op]) THEN Change(oldAc[op], newAc[op]) ELSE Undefined]

RECURSIVE AccessControlEntries(_, _)
AccessControlEntries(oldTables, newTables) ==
    IF newTables = <<>> THEN <<>>
    ELSE LET newTable == Head(newTables)
             rest == AccessControlEntries(oldTables, Tail(newTables))
         IN IF ~MapHas(oldTables, newTable.name) THEN <<NewTableEntry(newTable)>> \o rest
            ELSE LET changes ==
                         AccessControlChangeOf(MapGet(oldTables, newTable.name).accessControl,
                                               newTable.accessControl)
                 IN IF ChangeCount(changes, {"read", "create", "update", "delete"}) > 0
                    THEN <<[tableName |-> newTable.name, changes |-> changes]>> \o rest
                    ELSE rest

\* mutant: no entry for the tables that are new
generateAccessControlDiffOfKeptTables(oldTables, newTables) ==
    [tables |-> AccessControlEntries(oldTables,
                    SelectSeq(newTables, LAMBDA tb : MapHas(oldTables, tb.name)))]

generateAccessControlDiff(oldTables, newTables) ==
    [tables |-> AccessControlEntries(oldTables, newTables)]

\* mutant: the delete operation left out of a full migration
generateAccessControlDiffForFullMigrationNoDelete(tables) ==
    [tables |->
        [i \in 1..Len(tables) |->
            [tableName |-> tables[i].name,
             changes |-> [read |-> Change(defaultCondition, tables[i].accessControl.read),
                          create |-> Change(defaultCondition, tables[i].accessControl.create),
                          update |-> Change(defaultCondition, tables[i].accessControl.update),
                          delete |-> Undefined]]]]

generateAccessControlDiffForFullMigration(tables) ==
    [tables |->
        [i \in 1..Len(tables) |->
            [tableName |-> tables[i].name,
             changes |-> [read |-> Change(defaultCondition, tables[i].accessControl.read),
                          create |-> Change(defaultCondition, tables[i].accessControl.create),
                          update |-> Change(defaultCondition, tables[i].accessControl.update),
                          delete |-> Change(defaultCondition, tables[i].accessControl.delete)]]]]

generateDatabaseDiff(oldModel, newModel) ==
    [tables |-> generateTableDiff(oldModel.tables, newModel.tables),
     accessControl |-> generateAccessControlDiff(oldModel.tables, newModel.tables)]

(***************************************************************************)
(* Dialects and the type map.                                              *)
(***************************************************************************)
POSTGRESQL == "postgresql"
SQLITE_MINIMAL == "sqlite-minimal"
SQLITE_EXTENSIONS == "sqlite-extensions"
Dialects == {POSTGRESQL, SQLITE_MINIMAL, SQLITE_EXTENSIONS}

IsSqlite(dialect) == dialect = SQLITE_MINIMAL \/ dialect = SQLITE_EXTENSIONS

typeMap ==
    [d \in Dialects |->
        IF d = POSTGRESQL
        THEN [string |-> "TEXT", number |-> "NUMERIC", boolean |-> "BOOLEAN",
              object |-> "JSONB", date |-> "DATE",
              datetime |-> "TIMESTAMP WITH TIME ZONE", uuid |-> "UUID"]
        ELSE IF d = SQLITE_MINIMAL
        THEN [string |-> "TEXT", number |-> "REAL", boolean |-> "INTEGER",
              object |-> "TEXT", date |-> "TEXT", datetime |-> "TEXT", uuid |-> "TEXT"]
        ELSE [string |-> "TEXT", number |-> "REAL", boolean |-> "INTEGER",
              object |-> "JSON", date |-> "TEXT", datetime |-> "TEXT", uuid |-> "TEXT"]]

\* typeMap[dialect] is an object literal: a key that is not its own is looked
\* up in Object.prototype. The members found there are functions (an object
\* for __proto__), all truthy; the text is how a template literal renders them.
ObjectPrototypeMember(key) ==
    CASE key = "__proto__" -> "[object Object]"
      [] key = "constructor" -> "function Object() { [native code] }"
      [] key \in {"toString", "toLocaleString", "valueOf", "hasOwnProperty",
                  "isPrototypeOf", "propertyIsEnumerable"} ->
            "function " \o key \o "() { [native code] }"
      [] OTHER -> ""

\* typeMap[dialect][fieldType] || "TEXT"
mapFieldTypeToSQL(fieldType, dialect) ==
    IF fieldType \in DOMAIN typeMap[dialect] THEN typeMap[dialect][fieldType]
    ELSE IF ObjectPrototypeMember(fieldType) # "" THEN ObjectPrototypeMember(fieldType)
    ELSE "TEXT"

(***************************************************************************)
(* Strings: the case conversions of the names the model uses.              *)
(***************************************************************************)
toUpperCase(s) ==
    CASE s = "now" -> "NOW"
      [] s = "Now" -> "NOW"
      [] s = "lower" -> "LOWER"
      [] s = "cascade" -> "CASCADE"
      [] s = "restrict" -> "RESTRICT"
      [] s = "set_null" -> "SET_NULL"
      [] OTHER -> s

toLowerCase(s) ==
    CASE s = "NOW" -> "now"
      [] s = "Now" -> "now"
      [] s = "LOWER" -> "lower"
      [] OTHER -> s

(***************************************************************************)
(* Results of calls that may throw.                                        *)
(***************************************************************************)
Ok(v) == [t |-> "ok", v |-> v]
Err(e) == [t |-> "error", error |-> e]

\* the outcome of evaluating rs[1], rs[2], ... in order: the first error
\* thrown, or all the values
InOrder(rs) ==
    IF \E i \in 1..Len(rs) : rs[i].t = "error"
    THEN rs[CHOOSE i \in 1..Len(rs) :
               /\ rs[i].t = "error"
               /\ \A j \in 1..(i - 1) : rs[j].t = "ok"]
    ELSE Ok([i \in 1..Len(rs) |-> rs[i].v])

(***************************************************************************)
(* The external compiler (json-to-sql-parser): parseExpression and         *)
(* parseCondition. It is a deterministic function of its arguments that    *)
(* returns SQL text or throws; its text is kept symbolic.                  *)
(***************************************************************************)
Lit(text) == [sql |-> "literal", text |-> text]
Quoted(s) == [sql |-> "quoted", s |-> s]
Compiled(input, state) == [sql |-> "compiled", input |-> input, state |-> state]

CompilerError(input) == [name |-> "Error", message |-> [compiling |-> input]]

FuncCall(name, args) == JObj(<<"$func">>, <<JObj(<<name>>, <<JArr(args)>>)>>)

\* The zero-argument NOW() compiles to DATETIME() on the SQLite dialects
\* (the text that formatDefaultValue looks for).
parseExpression(expression, state) ==
    IF expression \in rejects THEN Err(CompilerError(expression))
    ELSE IF IsSqlite(state.config.dialect) /\ expression = FuncCall("NOW", <<>>)
    THEN Ok(Lit("DATETIME()"))
    ELSE Ok(Compiled(expression, state))

parseCondition(condition, state) ==
    IF condition \in rejects THEN Err(CompilerError(condition))
    ELSE Ok(Compiled(condition, state))

mapFieldType(fieldType) ==
    LET lower == toLowerCase(fieldType)
    IN CASE lower \in {"text", "string", "varchar", "char"} -> "string"
         [] lower \in {"int", "integer", "bigint", "smallint", "decimal", "numeric",
                       "real", "double", "float"} -> "number"
         [] lower \in {"bool", "boolean"} -> "boolean"
         [] lower \in {"json", "jsonb"} -> "object"
         [] lower = "date" -> "date"
         [] lower \in {"datetime", "timestamp", "timestamptz"} -> "datetime"
         [] lower = "uuid" -> "uuid"
         [] OTHER -> "string"

createParserConfig(model, dialect) ==
    [tables |->
        [i \in 1..Len(model.tables) |->
            [name |-> model.tables[i].name,
             allowedFields |->
                [j \in 1..Len(model.tables[i].fields) |->
                    LET field == model.tables[i].fields[j]
                    IN [name |-> field.name, type |-> mapFieldType(field.type),
                        nullable |-> ~Truthy(field.nonNullable),
                        default |-> field.default]]]],
     variables |-> <<"user_id">>,
     relationships |->
        Flatten([i \in 1..Len(model.tables) |->
            LET tb == model.tables[i]
                fks == SelectSeq(tb.fields, LAMBDA f : Truthy(f.foreignKey))
            IN [j \in 1..Len(fks) |->
                   [table |-> tb.name, field |-> fks[j].name,
                    toTable |-> Get(fks[j].foreignKey, "table"),
                    toField |-> Get(fks[j].foreignKey, "field"),
                    type |-> "many-to-one"]]]),
     dialect |-> dialect]

EmptyParserConfig(dialect) ==
    [tables |-> <<>>, variables |-> <<>>, relationships |-> <<>>, dialect |-> dialect]

(***************************************************************************)
(* Default values.                                                         *)
(***************************************************************************)
RECURSIVE normalizeExpression(_)
normalizeExpression(expression) ==
    IF expression.t = "object" /\ ~expression.isArray /\ HasKey(expression, "$func")
    THEN LET funcExpr == Get(expression, "$func")
         IN JObj(<<"$func">>,
                 <<JObj([i \in 1..Len(funcExpr.keys) |->
                            IF toLowerCase(funcExpr.keys[i]) = "now" THEN "NOW"
                            ELSE toUpperCase(funcExpr.keys[i])],
                        [i \in 1..Len(funcExpr.keys) |->
                            JArr([j \in 1..Len(funcExpr.vals[i].vals) |->
                                    normalizeExpression(funcExpr.vals[i].vals[j])])])>>)
    ELSE IF expression.t = "object" /\ ~expression.isArray
    THEN JObj(expression.keys,
              [i \in 1..Len(expression.keys) |->
                  IF expression.vals[i].t = "object"
                  THEN normalizeExpression(expression.vals[i])
                  ELSE expression.vals[i]])
    ELSE expression

\* mutant: a default that does not compile is written as NULL
formatDefaultValueSwallow(value, dialect) ==
    CASE IsNullish(value) -> Ok(Lit("NULL"))
      [] value.t = "string" -> Ok(Quoted(value.s))
      [] value.t = "number" -> Ok(Lit(ToString(value.n)))
      [] value.t = "boolean" ->
            IF IsSqlite(dialect) THEN Ok(Lit(IF value.b THEN "1" ELSE "0"))
            ELSE Ok(Lit(IF value.b THEN "true" ELSE "false"))
      [] OTHER ->
            LET normalizedValue == normalizeExpression(value)
                state == [config |-> EmptyParserConfig(dialect), rootTable |-> ""]
                sql == parseExpression(normalizedValue, state)
            IN IF sql.t = "error" THEN Ok(Lit("NULL"))
               ELSE IF IsSqlite(dialect) /\ sql.v = Lit("DATETIME()")
               THEN Ok(Lit("CURRENT_TIMESTAMP"))
               ELSE sql

formatDefaultValue(value, dialect) ==
    CASE IsNullish(value) -> Ok(Lit("NULL"))
      [] value.t = "string" -> Ok(Quoted(value.s))
      [] value.t = "number" -> Ok(Lit(ToString(value.n)))
      [] value.t = "boolean" ->
            IF IsSqlite(dialect) THEN Ok(Lit(IF value.b THEN "1" ELSE "0"))
            ELSE Ok(Lit(IF value.b THEN "true" ELSE "false"))
      [] OTHER ->
            LET normalizedValue == normalizeExpression(value)
                state == [config |-> EmptyParserConfig(dialect), rootTable |-> ""]
                sql == parseExpression(normalizedValue, state)
            IN IF sql.t = "error"
               THEN Err([name |-> "Error",
                         message |-> [prefix |-> "Failed to parse expression: ",
                                      cause |-> sql.error.message]])
               ELSE IF IsSqlite(dialect) /\ sql.v = Lit("DATETIME()")
               THEN Ok(Lit("CURRENT_TIMESTAMP"))
               ELSE sql

(***************************************************************************)
(* What a call leaves in the values it was given. Every assignment of      *)
(* normalizeExpression goes to an object it created (normalizedFunc,       *)
(* normalized), createParserConfig fills a fresh accumulator, and the      *)
(* synthesizer pushes to its own sqlParts: the argument is left as it was. *)
(***************************************************************************)
\* mutant: the function names are normalized in the expression itself
normalizeExpressionInPlace(expression) == normalizeExpression(expression)

\* the expression handed to normalizeExpression, after the call
normalizeExpressionArgument(expression) == expression

\* the default handed to formatDefaultValue, after the call
formatDefaultValueArgument(value) ==
    IF value.t = "object" THEN normalizeExpressionArgument(value) ELSE value

\* the fields whose DEFAULT clause was formatted, after the call
FormattedFields(fields) ==
    [i \in 1..Len(fields) |->
        [fields[i] EXCEPT !.default = formatDefaultValueArgument(fields[i].default)]]

FormattedTables(tables) ==
    [i \in 1..Len(tables) |->
        [tables[i] EXCEPT !.fields = FormattedFields(tables[i].fields)]]

\* the snapshot handed to generateInitialMigration, after the call
generateInitialMigrationArgument(model) ==
    [model EXCEPT !.tables = FormattedTables(model.tables)]

\* the diff handed to generateMigrationFromDiff, after the call
generateMigrationFromDiffArgument(diff, dialect) ==
    [diff EXCEPT
        !.tables.added = FormattedTables(diff.tables.added),
        !.tables.modified =
            [i \in 1..Len(diff.tables.modified) |->
                LET m == diff.tables.modified[i]
                IN [m EXCEPT
                      !.fieldsAdded = FormattedFields(m.fieldsAdded),
                      !.fieldsModified =
                          [j \in 1..Len(m.fieldsModified) |->
                              LET change == m.fieldsModified[j].changes.default
                              IN IF Truthy(change) /\ dialect = POSTGRESQL
                                 THEN [m.fieldsModified[j] EXCEPT !.changes.default.to =
                                          formatDefaultValueArgument(change.to)]
                                 ELSE m.fieldsModified[j]]]]]

(***************************************************************************)
(* SQL statements. A part is what one sqlParts.push adds: a sequence of    *)
(* statements (several when the pushed text holds several, none when the   *)
(* text is empty).                                                         *)
(***************************************************************************)
NoDefault == [sql |-> "none"]

constraintNameOf(tableName, fieldName) == "fk_" \o tableName \o "_" \o fieldName

\* ... REFERENCES "table" ("field") [ON DELETE x] [ON UPDATE y]
References(foreignKey) ==
    [table |-> Get(foreignKey, "table").s,
     field |-> Get(foreignKey, "field").s,
     onDelete |-> IF Truthy(Get(foreignKey, "onDelete"))
                  THEN toUpperCase(Get(foreignKey, "onDelete").s) ELSE "",
     onUpdate |-> IF Truthy(Get(foreignKey, "onUpdate"))
                  THEN toUpperCase(Get(foreignKey, "onUpdate").s) ELSE ""]

AddConstraintSQL(tableName, fieldName, foreignKey) ==
    [kind |-> "ADD CONSTRAINT", table |-> tableName,
     constraint |-> constraintNameOf(tableName, fieldName),
     column |-> fieldName, references |-> References(foreignKey)]

DropConstraintSQL(tableName, fieldName) ==
    [kind |-> "DROP CONSTRAINT IF EXISTS", table |-> tableName,
     constraint |-> constraintNameOf(tableName, fieldName)]

DropTableSQL(tableName) == [kind |-> "DROP TABLE IF EXISTS", table |-> tableName]

DropColumnSQL(tableName, fieldName) ==
    [kind |-> "DROP COLUMN", table |-> tableName, column |-> fieldName]

\* DEFAULT clause of a column: none when the field declares no default
DefaultClause(field, dialect) ==
    IF field.default # Undefined THEN formatDefaultValue(field.default, dialect)
    ELSE Ok(NoDefault)

\* mutant: row-level security enabled whatever the dialect
EnableRowLevelSecuritySQLAlways(tableName, dialect) ==
    <<[kind |-> "ENABLE ROW LEVEL SECURITY", table |-> tableName]>>

\* the statement that follows CREATE TABLE on PostgreSQL
EnableRowLevelSecuritySQL(tableName, dialect) ==
    IF dialect = POSTGRESQL
    THEN <<[kind |-> "ENABLE ROW LEVEL SECURITY", table |-> tableName]>>
    ELSE <<>>

generateCreateTableSQL(table, dialect) ==
    LET defaults == InOrder([i \in 1..Len(table.fields) |->
                               DefaultClause(table.fields[i], dialect)])
        columns == [i \in 1..Len(table.fields) |->
                      LET field == table.fields[i]
                      IN [name |-> field.name,
                          type |-> mapFieldTypeToSQL(field.type, dialect),
                          primaryKey |-> Truthy(field.primaryKey),
                          notNull |-> Truthy(field.nonNullable) /\ ~Truthy(field.primaryKey),
                          default |-> defaults.v[i]]]
        withFk == SelectSeq(table.fields, LAMBDA f : Truthy(f.foreignKey))
        foreignKeys == IF IsSqlite(dialect)
                       THEN [i \in 1..Len(withFk) |->
                               [column |-> withFk[i].name,
                                references |-> References(withFk[i].foreignKey)]]
                       ELSE <<>>
        sql == [kind |-> "CREATE TABLE", table |-> table.name,
                columns |-> columns, foreignKeys |-> foreignKeys]
    IN IF defaults.t = "error" THEN defaults
       ELSE Ok(<<sql>> \o EnableRowLevelSecuritySQL(table.name, dialect))

\* mutant: the default of an added column set by a statement of its own
generateAddColumnSQLThenDefault(tableName, field, dialect) ==
    LET default == DefaultClause(field, dialect)
    IN IF default.t = "error" THEN default
       ELSE Ok(<<[kind |-> "ADD COLUMN", table |-> tableName, column |-> field.name,
                  type |-> mapFieldTypeToSQL(field.type, dialect),
                  notNull |-> Truthy(field.nonNullable), default |-> NoDefault]>>
               \o IF default.v = NoDefault THEN <<>>
                  ELSE <<[kind |-> "ALTER COLUMN SET DEFAULT", table |-> tableName,
                          column |-> field.name, default |-> default.v]>>)

generateAddColumnSQL(tableName, field, dialect) ==
    LET default == DefaultClause(field, dialect)
    IN IF default.t = "error" THEN default
       ELSE Ok(<<[kind |-> "ADD COLUMN", table |-> tableName, column |-> field.name,
                  type |-> mapFieldTypeToSQL(field.type, dialect),
                  notNull |-> Truthy(field.nonNullable), default |-> default.v]>>)

\* `${field.name}_${Date.now()}_new`
newColumnNameOf(fieldName, now) == fieldName \o "_" \o ToString(now) \o "_new"

\* mutant: the rebuilt column is never renamed to the original name
AlterTypeSQLNoRename(tableName, field, changes, dialect, now) ==
    IF ~Truthy(changes.type) THEN <<>>
    ELSE LET newType == mapFieldTypeToSQL(changes.type.to, dialect)
             newColumnName == newColumnNameOf(field.name, now)
         IN IF dialect = POSTGRESQL
            THEN <<[kind |-> "ALTER COLUMN TYPE", table |-> tableName,
                    column |-> field.name, type |-> newType]>>
            ELSE <<[kind |-> "ADD COLUMN", table |-> tableName, column |-> newColumnName,
                    type |-> newType, notNull |-> FALSE, default |-> NoDefault],
                   [kind |-> "UPDATE SET CAST", table |-> tableName,
                    column |-> newColumnName, from |-> field.name, type |-> newType],
                   DropColumnSQL(tableName, field.name)>>

\* mutant: the original column is dropped before its rows are copied
AlterTypeSQLDropFirst(tableName, field, changes, dialect, now) ==
    IF ~Truthy(changes.type) THEN <<>>
    ELSE LET newType == mapFieldTypeToSQL(changes.type.to, dialect)
             newColumnName == newColumnNameOf(field.name, now)
         IN IF dialect = POSTGRESQL
            THEN <<[kind |-> "ALTER COLUMN TYPE", table |-> tableName,
                    column |-> field.name, type |-> newType]>>
            ELSE <<[kind |-> "ADD COLUMN", table |-> tableName, column |-> newColumnName,
                    type |-> newType, notNull |-> FALSE, default |-> NoDefault],
                   DropColumnSQL(tableName, field.name),
                   [kind |-> "UPDATE SET CAST", table |-> tableName,
                    column |-> newColumnName, from |-> field.name, type |-> newType],
                   [kind |-> "RENAME COLUMN", table |-> tableName,
                    column |-> newColumnName, to |-> field.name]>>

AlterTypeSQL(tableName, field, changes, dialect, now) ==
    IF ~Truthy(changes.type) THEN <<>>
    ELSE LET newType == mapFieldTypeToSQL(changes.type.to, dialect)
             newColumnName == newColumnNameOf(field.name, now)
         IN IF dialect = POSTGRESQL
            THEN <<[kind |-> "ALTER COLUMN TYPE", table |-> tableName,
                    column |-> field.name, type |-> newType]>>
            ELSE <<[kind |-> "ADD COLUMN", table |-> tableName, column |-> newColumnName,
                    type |-> newType, notNull |-> FALSE, default |-> NoDefault],
                   [kind |-> "UPDATE SET CAST", table |-> tableName,
                    column |-> newColumnName, from |-> field.name, type |-> newType],
                   DropColumnSQL(tableName, field.name),
                   [kind |-> "RENAME COLUMN", table |-> tableName,
                    column |-> newColumnName, to |-> field.name]>>

\* mutant: the nullability statement written whatever the dialect
AlterNullabilitySQLAnyDialect(tableName, field, changes, dialect) ==
    IF Truthy(changes.nonNullable)
    THEN <<[kind |-> IF Truthy(changes.nonNullable.to) THEN "ALTER COLUMN SET NOT NULL"
                     ELSE "ALTER COLUMN DROP NOT NULL",
            table |-> tableName, column |-> field.name]>>
    ELSE <<>>

AlterNullabilitySQL(tableName, field, changes, dialect) ==
    IF Truthy(changes.nonNullable) /\ dialect = POSTGRESQL
    THEN <<[kind |-> IF Truthy(changes.nonNullable.to) THEN "ALTER COLUMN SET NOT NULL"
                     ELSE "ALTER COLUMN DROP NOT NULL",
            table |-> tableName, column |-> field.name]>>
    ELSE <<>>

AlterDefaultSQL(tableName, field, changes, dialect) ==
    IF Truthy(changes.default) /\ dialect = POSTGRESQL
    THEN IF changes.default.to = Undefined
         THEN Ok(<<[kind |-> "ALTER COLUMN DROP DEFAULT", table |-> tableName,
                    column |-> field.name]>>)
         ELSE LET default == formatDefaultValue(changes.default.to, dialect)
              IN IF default.t = "error" THEN default
                 ELSE Ok(<<[kind |-> "ALTER COLUMN SET DEFAULT", table |-> tableName,
                            column |-> field.name, default |-> default.v]>>)
    ELSE Ok(<<>>)

generateAlterColumnSQL(tableName, field, changes, dialect, now) ==
    LET default == AlterDefaultSQL(tableName, field, changes, dialect)
    IN IF default.t = "error" THEN default
       ELSE Ok(AlterTypeSQL(tableName, field, changes, dialect, now)
               \o AlterNullabilitySQL(tableName, field, changes, dialect)
               \o default.v)

PolicyFor ==
    [read |-> [for |-> "SELECT", clause |-> "USING"],
     create |-> [for |-> "INSERT", clause |-> "WITH CHECK"],
     update |-> [for |-> "UPDATE", clause |-> "USING"],
     delete |-> [for |-> "DELETE", clause |-> "USING"]]

policyNameOf(tableName, op) == tableName \o "_" \o op \o "_policy"

DropPolicySQL(tableName, op) ==
    [kind |-> "DROP POLICY IF EXISTS", table |-> tableName,
     policy |-> policyNameOf(tableName, op)]

\* mutant: only the policies of the changed operations are dropped
TablePoliciesSQLDropChanged(entry, model) ==
    LET tableName == entry.tableName
        state == [config |-> createParserConfig(model, POSTGRESQL), rootTable |-> tableName]
        changed == SelectSeq(Operations, LAMBDA op : Truthy(entry.changes[op]))
        conditions == InOrder([i \in 1..Len(changed) |->
                                 parseCondition(entry.changes[changed[i]].to, state)])
    IN IF conditions.t = "error" THEN conditions
       ELSE Ok([i \in 1..Len(changed) |-> DropPolicySQL(tableName, changed[i])]
               \o [i \in 1..Len(changed) |->
                      [kind |-> "CREATE POLICY", table |-> tableName,
                       policy |-> policyNameOf(tableName, changed[i]),
                       for |-> PolicyFor[changed[i]].for,
                       clause |-> PolicyFor[changed[i]].clause,
                       condition |-> conditions.v[i]]])

\* the policy block of one entry of the access-control diff
TablePoliciesSQL(entry, model) ==
    LET tableName == entry.tableName
        state == [config |-> createParserConfig(model, POSTGRESQL), rootTable |-> tableName]
        changed == SelectSeq(Operations, LAMBDA op : Truthy(entry.changes[op]))
        conditions == InOrder([i \in 1..Len(changed) |->
                                 parseCondition(entry.changes[changed[i]].to, state)])
    IN IF conditions.t = "error" THEN conditions
       ELSE Ok([i \in 1..Len(Operations) |-> DropPolicySQL(tableName, Operations[i])]
               \o [i \in 1..Len(changed) |->
                      [kind |-> "CREATE POLICY", table |-> tableName,
                       policy |-> policyNameOf(tableName, changed[i]),
                       for |-> PolicyFor[changed[i]].for,
                       clause |-> PolicyFor[changed[i]].clause,
                       condition |-> conditions.v[i]]])

generateRLSPoliciesSQL(accessControlDiff, model) ==
    LET blocks == InOrder([i \in 1..Len(accessControlDiff.tables) |->
                             TablePoliciesSQL(accessControlDiff.tables[i], model)])
    IN IF blocks.t = "error" THEN blocks ELSE Ok(Flatten(blocks.v))

\* sqlParts.filter(Boolean).join: the statements of the parts that are not empty
JoinParts(parts) == Flatten(SelectSeq(parts, LAMBDA part : part # <<>>))

\* the pushes of one table modification, in order
FieldsAddedParts(modification, dialect) ==
    Flatten([i \in 1..Len(modification.fieldsAdded) |->
        LET field == modification.fieldsAdded[i]
        IN <<generateAddColumnSQL(modification.tableName, field, dialect)>>
           \o IF Truthy(field.foreignKey) /\ dialect = POSTGRESQL
              THEN <<Ok(<<AddConstraintSQL(modification.tableName, field.name,
                                           field.foreignKey)>>)>>
              ELSE <<>>])

\* mutant: the column dropped before its foreign-key constraint
FieldsRemovedPartsColumnFirst(modification, dialect) ==
    Flatten([i \in 1..Len(modification.fieldsRemoved) |->
        LET field == modification.fieldsRemoved[i]
        IN <<Ok(<<DropColumnSQL(modification.tableName, field.name)>>)>>
           \o (IF Truthy(field.foreignKey) /\ dialect = POSTGRESQL
               THEN <<Ok(<<DropConstraintSQL(modification.tableName, field.name)>>)>>
               ELSE <<>>)])

FieldsRemovedParts(modification, dialect) ==
    Flatten([i \in 1..Len(modification.fieldsRemoved) |->
        LET field == modification.fieldsRemoved[i]
        IN (IF Truthy(field.foreignKey) /\ dialect = POSTGRESQL
            THEN <<Ok(<<DropConstraintSQL(modification.tableName, field.name)>>)>>
            ELSE <<>>)
           \o <<Ok(<<DropColumnSQL(modification.tableName, field.name)>>)>>])

\* mutant: the new constraint added before the old one is dropped
FieldsModifiedPartsAddFirst(modification, dialect, now) ==
    Flatten([i \in 1..Len(modification.fieldsModified) |->
        LET fieldMod == modification.fieldsModified[i]
            fk == fieldMod.changes.foreignKey
        IN (IF Truthy(fk) /\ dialect = POSTGRESQL
            THEN (IF Truthy(fk.to)
                  THEN <<Ok(<<AddConstraintSQL(modification.tableName,
                                               fieldMod.field.name, fk.to)>>)>>
                  ELSE <<>>)
                 \o (IF Truthy(fk.from)
                     THEN <<Ok(<<DropConstraintSQL(modification.tableName,
                                                   fieldMod.field.name)>>)>>
                     ELSE <<>>)
            ELSE <<>>)
           \o <<generateAlterColumnSQL(modification.tableName, fieldMod.field,
                                       fieldMod.changes, dialect, now)>>])

FieldsModifiedParts(modification, dialect, now) ==
    Flatten([i \in 1..Len(modification.fieldsModified) |->
        LET fieldMod == modification.fieldsModified[i]
            fk == fieldMod.changes.foreignKey
        IN (IF Truthy(fk) /\ dialect = POSTGRESQL
            THEN (IF Truthy(fk.from)
                  THEN <<Ok(<<DropConstraintSQL(modification.tableName,
                                                fieldMod.field.name)>>)>>
                  ELSE <<>>)
                 \o (IF Truthy(fk.to)
                     THEN <<Ok(<<AddConstraintSQL(modification.tableName,
                                                  fieldMod.field.name, fk.to)>>)>>
                     ELSE <<>>)
            ELSE <<>>)
           \o <<generateAlterColumnSQL(modification.tableName, fieldMod.field,
                                       fieldMod.changes, dialect, now)>>])

\* mutant: the removed fields handled before the added ones
ModificationPartsRemoveFirst(modification, dialect, now) ==
    FieldsRemovedParts(modification, dialect)
    \o FieldsAddedParts(modification, dialect)
    \o FieldsModifiedParts(modification, dialect, now)

ModificationParts(modification, dialect, now) ==
    FieldsAddedParts(modification, dialect)
    \o FieldsRemovedParts(modification, dialect)
    \o FieldsModifiedParts(modification, dialect, now)

generateMigrationFromDiff(diff, targetModel, dialect, now) ==
    LET removed == [i \in 1..Len(diff.tables.removed) |->
                       Ok(<<DropTableSQL(diff.tables.removed[i].name)>>)]
        added == [i \in 1..Len(diff.tables.added) |->
                     generateCreateTableSQL(diff.tables.added[i], dialect)]
        modified == Flatten([i \in 1..Len(diff.tables.modified) |->
                               ModificationParts(diff.tables.modified[i], dialect, now)])
        policies == IF dialect = POSTGRESQL
                    THEN <<generateRLSPoliciesSQL(diff.accessControl, targetModel)>>
                    ELSE <<>>
        sqlParts == InOrder(removed \o added \o modified \o policies)
    IN IF sqlParts.t = "error" THEN sqlParts
       ELSE Ok([sql |-> JoinParts(sqlParts.v), accessControlDiff |-> diff.accessControl])

\* mutant: the constraints pushed before the tables they belong to
generateInitialMigrationConstraintsFirst(model, dialect) ==
    LET tables == [i \in 1..Len(model.tables) |->
                      generateCreateTableSQL(model.tables[i], dialect)]
        constraints ==
            IF dialect = POSTGRESQL
            THEN Flatten([i \in 1..Len(model.tables) |->
                     LET table == model.tables[i]
                         withFk == SelectSeq(table.fields, LAMBDA f : Truthy(f.foreignKey))
                     IN [j \in 1..Len(withFk) |->
                            Ok(<<AddConstraintSQL(table.name, withFk[j].name,
                                                  withFk[j].foreignKey)>>)]])
            ELSE <<>>
        accessControlDiff == generateAccessControlDiffForFullMigration(model.tables)
        policies == IF dialect = POSTGRESQL
                    THEN <<generateRLSPoliciesSQL(accessControlDiff, model)>>
                    ELSE <<>>
        sqlParts == InOrder(constraints \o tables \o policies)
    IN IF sqlParts.t = "error" THEN sqlParts
       ELSE Ok([sql |-> JoinParts(sqlParts.v),
                accessControlDiff |-> IF dialect = POSTGRESQL THEN accessControlDiff
                                      ELSE [tables |-> <<>>]])

generateInitialMigration(model, dialect) ==
    LET tables == [i \in 1..Len(model.tables) |->
                      generateCreateTableSQL(model.tables[i], dialect)]
        constraints ==
            IF dialect = POSTGRESQL
            THEN Flatten([i \in 1..Len(model.tables) |->
                     LET table == model.tables[i]
                         withFk == SelectSeq(table.fields, LAMBDA f : Truthy(f.foreignKey))
                     IN [j \in 1..Len(withFk) |->
                            Ok(<<AddConstraintSQL(table.name, withFk[j].name,
                                                  withFk[j].foreignKey)>>)]])
            ELSE <<>>
        accessControlDiff == generateAccessControlDiffForFullMigration(model.tables)
        policies == IF dialect = POSTGRESQL
                    THEN <<generateRLSPoliciesSQL(accessControlDiff, model)>>
                    ELSE <<>>
        sqlParts == InOrder(tables \o constraints \o policies)
    IN IF sqlParts.t = "error" THEN sqlParts
       ELSE Ok([sql |-> JoinParts(sqlParts.v),
                accessControlDiff |-> IF dialect = POSTGRESQL THEN accessControlDiff
                                      ELSE [tables |-> <<>>]])

(***************************************************************************)
(* The snapshots the caller may hold: at most MaxTables tables of distinct *)
(* names, each of at most MaxFields fields of distinct names.              *)
(***************************************************************************)
TableNames == {"t1", "t2"}

CondTrue == JBool(TRUE)
CondFalse == JBool(FALSE)
\* { id: { $eq: { $var: "user_id" } } }
CondOwner == JObj(<<"id">>, <<JObj(<<"$eq">>, <<JObj(<<"$var">>, <<JStr("user_id")>>)>>)>>)

AccessControls ==
    {AccessControl(CondTrue, CondTrue, CondTrue, CondTrue),
     AccessControl(CondOwner, CondTrue, CondOwner, CondFalse)}

ForeignKey(table, field, onDelete) ==
    IF onDelete = ""
    THEN JObj(<<"table", "field">>, <<JStr(table), JStr(field)>>)
    ELSE JObj(<<"table", "field", "onDelete">>, <<JStr(table), JStr(field), JStr(onDelete)>>)

IdField == Field("a", "uuid", JBool(TRUE), JBool(TRUE), Undefined, Undefined)

FieldPool ==
    {IdField,
     Field("b", "string", Undefined, Undefined, Undefined, Undefined),
     Field("b", "string", JBool(FALSE), Undefined, FuncCall("now", <<>>), Undefined),
     Field("b", "number", JBool(TRUE), Undefined, Undefined, ForeignKey("t2", "a", "cascade"))}

SeqsUpTo(S, n) == UNION {[1..k -> S] : k \in 0..n}

DistinctNames(s) == \A i, j \in 1..Len(s) : s[i].name = s[j].name => i = j

FieldLists == {fs \in SeqsUpTo(FieldPool, MaxFields) : DistinctNames(fs)}

TablePool ==
    {Table("t1", fs, ac) : fs \in FieldLists, ac \in AccessControls}
    \cup {Table("t2", <<IdField>>, AccessControl(CondTrue, CondTrue, CondTrue, CondTrue))}

Snapshots == {DataModel(ts) : ts \in {s \in SeqsUpTo(TablePool, MaxTables) : DistinctNames(s)}}

\* what the two snapshots make the synthesizer hand to the external compiler:
\* the normalized default expressions and the conditions
CompilerInputs(models) ==
    UNION {UNION {{normalizeExpression(tb.fields[i].default) : i \in 1..Len(tb.fields)}
                  \cup {tb.accessControl[op] : op \in DOMAIN tb.accessControl} :
                  tb \in {m.tables[i] : i \in 1..Len(m.tables)}} : m \in models}

\* the inputs the external compiler may fail on
Rejectable == {FuncCall("NOW", <<>>), CondOwner}

None == [t |-> "none"]

(***************************************************************************)
(* The calls of the caller.                                                *)
(***************************************************************************)
Init ==
    /\ modelA \in Snapshots
    /\ modelB \in Snapshots
    /\ target \in Dialects
    /\ rejects \in SUBSET (Rejectable \cap CompilerInputs({modelA, modelB}))
    /\ clock = 1
    /\ pc = "idle"
    /\ initial = [k \in {"A", "B"} |-> None]
    /\ dbDiff = None
    /\ migration = None

\* generateInitialMigration(model, dialect), of the old and then the new snapshot
CallGenerateInitialMigration ==
    /\ pc \in {"idle", "bootstrapped"}
    /\ \E k \in {"A", "B"} :
          /\ initial[k] = None
          /\ k = "B" => initial["A"] # None
          /\ initial' = [initial EXCEPT ![k] =
                            generateInitialMigration(IF k = "A" THEN modelA ELSE modelB, target)]
          /\ modelA' = IF k = "A" THEN generateInitialMigrationArgument(modelA) ELSE modelA
          /\ modelB' = IF k = "B" THEN generateInitialMigrationArgument(modelB) ELSE modelB
    /\ pc' = "bootstrapped"
    /\ UNCHANGED <<target, rejects, clock, dbDiff, migration>>

\* generateDatabaseDiff(oldModel, newModel): it reads the two snapshots and
\* assigns only to the maps, lists and change records it creates
CallGenerateDatabaseDiff ==
    /\ pc = "bootstrapped"
    /\ initial["B"] # None
    /\ dbDiff' = generateDatabaseDiff(modelA, modelB)
    /\ pc' = "diffed"
    /\ UNCHANGED <<modelA, modelB, target, rejects, clock, initial, migration>>

\* generateMigrationFromDiff(diff, targetModel, dialect); Date.now() reads a
\* clock that has not gone back since the last call
CallGenerateMigrationFromDiff ==
    /\ pc \in {"diffed", "migrated"}
    /\ \E reading \in clock..MaxClock :
          /\ clock' = reading
          /\ migration' = generateMigrationFromDiff(dbDiff, modelB, target, reading)
    /\ dbDiff' = generateMigrationFromDiffArgument(dbDiff, target)
    /\ pc' = "migrated"
    /\ UNCHANGED <<modelA, modelB, target, rejects, initial>>

Next ==
    \/ CallGenerateInitialMigration
    \/ CallGenerateDatabaseDiff
    \/ CallGenerateMigrationFromDiff

Spec == Init /\ [][Next]_vars

(***************************************************************************)
(* A second universe for the type map and the shape of the diff: one table *)
(* with at most one field, whose type is any of the seven semantic types   *)
(* or a type outside them; a snapshot may carry the table-level            *)
(* relationships list of src/src/schemas.ts. The calls are the same.       *)
(***************************************************************************)
FieldTypes == {"string", "number", "boolean", "object", "date", "datetime", "uuid"}

\* field types outside the enumeration
UnknownTypes == {"text", "constructor"}

\* the relationship of the unit test
UserIdRelationship ==
    [name |-> "user_id", fromTable |-> "posts", toTable |-> "users",
     type |-> "many-to-one", onDelete |-> "cascade"]

DataModelWithRelationships(tables, relationships) ==
    [tables |-> tables, relationships |-> relationships]

TypedTables ==
    {<<Table("t1", fs, AccessControl(CondTrue, CondTrue, CondTrue, CondTrue))>> :
        fs \in {<<>>} \cup {<<Field("a", ty, Undefined, Undefined, Undefined, Undefined)>> :
                                ty \in FieldTypes \cup UnknownTypes}}

TypedSnapshots ==
    {DataModel(ts) : ts \in TypedTables}
    \cup {DataModelWithRelationships(ts, rs) :
             ts \in TypedTables, rs \in {<<>>, <<UserIdRelationship>>}}

InitTyped ==
    /\ modelA \in TypedSnapshots
    /\ modelB \in TypedSnapshots
    /\ target \in Dialects
    /\ rejects = {}
    /\ clock = 1
    /\ pc = "idle"
    /\ initial = [k \in {"A", "B"} |-> None]
    /\ dbDiff = None
    /\ migration = None

SpecTyped == InitTyped /\ [][Next]_vars

(***************************************************************************)
(* A third universe for the attribute changes of one field: table t1 has   *)
(* the single field b whose five attributes vary one by one, among them    *)
(* two different foreign-key descriptors and the primary-key flag; table   *)
(* t2 is always there to be referenced. The calls are the same.            *)
(***************************************************************************)
KeyedFields ==
    {Field("b", ty, nn, pk, default, fk) :
        ty \in {"number", "string"},
        nn \in {Undefined, JBool(TRUE)},
        pk \in {Undefined, JBool(TRUE)},
        default \in {Undefined, JNum(0)},
        fk \in {Undefined, ForeignKey("t2", "a", "cascade"), ForeignKey("t2", "a", "restrict")}}

KeyedSnapshots ==
    {DataModel(<<Table("t1", <<field>>, AccessControl(CondTrue, CondTrue, CondTrue, CondTrue)),
                 Table("t2", <<IdField>>, AccessControl(CondTrue, CondTrue, CondTrue, CondTrue))>>) :
        field \in KeyedFields}

InitKeyed ==
    /\ modelA \in KeyedSnapshots
    /\ modelB \in KeyedSnapshots
    /\ target \in Dialects
    /\ rejects = {}
    /\ clock = 1
    /\ pc = "idle"
    /\ initial = [k \in {"A", "B"} |-> None]
    /\ dbDiff = None
    /\ migration = None

SpecKeyed == InitKeyed /\ [][Next]_vars

(***************************************************************************)
(* A fourth universe for the normalization of default expressions: table   *)
(* t1 has the single field b whose default is an expression tree: function *)
(* calls in lower, mixed and upper case, nested as arguments of function   *)
(* calls, and objects that are not function calls, with and without a      *)
(* function call inside. The calls are the same; the compiled default of   *)
(* the CREATE TABLE shows the normalized expression.                       *)
(***************************************************************************)
\* { $field: "a" }
FieldReference == JObj(<<"$field">>, <<JStr("a")>>)

\* { $cond: { if: true, then: <expression>, else: "y" } }
Conditional(then) ==
    JObj(<<"$cond">>, <<JObj(<<"if", "then", "else">>, <<JBool(TRUE), then, JStr("y")>>)>>)

DefaultExpressions ==
    {FuncCall("now", <<>>),
     FuncCall("NOW", <<>>),
     FuncCall("lower", <<JStr("x")>>),
     FuncCall("lower", <<FuncCall("Now", <<>>)>>),
     FuncCall("LOWER", <<FieldReference>>),
     FuncCall("lower", <<FuncCall("lower", <<FuncCall("now", <<>>), JNum(1)>>)>>),
     FieldReference,
     Conditional(JStr("x")),
     Conditional(FuncCall("lower", <<JStr("x")>>))}

ExpressionSnapshots ==
    {DataModel(<<Table("t1", <<Field("b", "string", Undefined, Undefined, default, Undefined)>>,
                       AccessControl(CondTrue, CondTrue, CondTrue, CondTrue))>>) :
        default \in DefaultExpressions \cup {Undefined}}

InitExpressions ==
    /\ modelA \in ExpressionSnapshots
    /\ modelB \in ExpressionSnapshots
    /\ target \in Dialects
    /\ rejects = {}
    /\ clock = 1
    /\ pc = "idle"
    /\ initial = [k \in {"A", "B"} |-> None]
    /\ dbDiff = None
    /\ migration = None

SpecExpressions == InitExpressions /\ [][Next]_vars

(***************************************************************************)
(* An abstract database: its tables and, per table, its columns with their *)
(* native types. A statement that the database refuses leaves it failed.   *)
(***************************************************************************)
DatabaseOf(model, dialect) ==
    [ok |-> TRUE,
     tables |-> Names(model.tables),
     columns |-> UNION {{[table |-> model.tables[i].name,
                          column |-> model.tables[i].fields[j].name,
                          type |-> mapFieldTypeToSQL(model.tables[i].fields[j].type, dialect)] :
                            j \in 1..Len(model.tables[i].fields)} :
                        i \in 1..Len(model.tables)}]

HasColumn(db, table, column) == \E c \in db.columns : c.table = table /\ c.column = column

Failed(db) == [db EXCEPT !.ok = FALSE]

Execute(db, stmt) ==
    IF ~db.ok THEN db
    ELSE CASE stmt.kind = "DROP TABLE IF EXISTS" ->
                [db EXCEPT !.tables = @ \ {stmt.table},
                           !.columns = {c \in @ : c.table # stmt.table}]
           [] stmt.kind = "CREATE TABLE" ->
                IF stmt.table \in db.tables THEN Failed(db)
                ELSE [db EXCEPT !.tables = @ \cup {stmt.table},
                                !.columns = @ \cup {[table |-> stmt.table,
                                                     column |-> stmt.columns[i].name,
                                                     type |-> stmt.columns[i].type] :
                                                       i \in 1..Len(stmt.columns)}]
           [] stmt.kind = "ADD COLUMN" ->
                IF stmt.table \notin db.tables \/ HasColumn(db, stmt.table, stmt.column)
                THEN Failed(db)
                ELSE [db EXCEPT !.columns = @ \cup {[table |-> stmt.table,
                                                     column |-> stmt.column,
                                                     type |-> stmt.type]}]
           [] stmt.kind = "DROP COLUMN" ->
                IF ~HasColumn(db, stmt.table, stmt.column) THEN Failed(db)
                ELSE [db EXCEPT !.columns = {c \in @ : ~(c.table = stmt.table
                                                          /\ c.column = stmt.column)}]
           [] stmt.kind = "RENAME COLUMN" ->
                IF ~HasColumn(db, stmt.table, stmt.column) \/ HasColumn(db, stmt.table, stmt.to)
                THEN Failed(db)
                ELSE [db EXCEPT !.columns =
                        {IF c.table = stmt.table /\ c.column = stmt.column
                         THEN [c EXCEPT !.column = stmt.to] ELSE c : c \in @}]
           [] stmt.kind = "ALTER COLUMN TYPE" ->
                IF ~HasColumn(db, stmt.table, stmt.column) THEN Failed(db)
                ELSE [db EXCEPT !.columns =
                        {IF c.table = stmt.table /\ c.column = stmt.column
                         THEN [c EXCEPT !.type = stmt.type] ELSE c : c \in @}]
           [] stmt.kind = "UPDATE SET CAST" ->
                IF HasColumn(db, stmt.table, stmt.column) /\ HasColumn(db, stmt.table, stmt.from)
                THEN db ELSE Failed(db)
           [] OTHER -> IF stmt.table \in db.tables THEN db ELSE Failed(db)

RECURSIVE ExecuteAll(_, _)
ExecuteAll(db, stmts) ==
    IF stmts = <<>> THEN db ELSE ExecuteAll(Execute(db, Head(stmts)), Tail(stmts))

Count(stmts, Test(_)) == Len(SelectSeq(stmts, Test))

Diffed == pc \in {"diffed", "migrated"}
Migrated == pc = "migrated" /\ migration.t = "ok"

(***************************************************************************)
(* C1: the diff of a snapshot with itself is empty: no table added,        *)
(* removed or modified and no access-control entry.                        *)
(***************************************************************************)
C1_SelfDiffEmpty ==
    (Diffed /\ modelA = modelB) =>
        /\ dbDiff.tables.added = <<>>
        /\ dbDiff.tables.removed = <<>>
        /\ dbDiff.tables.modified = <<>>
        /\ dbDiff.accessControl.tables = <<>>

C1_Witness ==
    /\ Diffed /\ modelA = modelB
    /\ Len(modelA.tables) = MaxTables
    /\ \E i \in 1..Len(modelA.tables) :
          /\ modelA.tables[i].accessControl.read = CondOwner
          /\ \E j \in 1..Len(modelA.tables[i].fields) :
                TypeOf(modelA.tables[i].fields[j].default) = "object"

(***************************************************************************)
(* C2: the names of the added tables are the names only in the new         *)
(* snapshot, the names of the removed tables the names only in the old     *)
(* one; the two are disjoint and with the names in both they make up the   *)
(* union of the names; when the new snapshot is the old one plus extra     *)
(* tables, added is exactly those tables and nothing is removed or         *)
(* modified.                                                               *)
(***************************************************************************)
C2_AddedRemovedNames ==
    Diffed =>
        LET namesA == Names(modelA.tables)
            namesB == Names(modelB.tables)
            added == Names(dbDiff.tables.added)
            removed == Names(dbDiff.tables.removed)
            extra == SelectSeq(modelB.tables, LAMBDA tb : tb.name \notin namesA)
        IN /\ added = namesB \ namesA
           /\ removed = namesA \ namesB
           /\ added \cap removed = {}
           /\ added \cup (namesA \cap namesB) \cup removed = namesA \cup namesB
           /\ (\A i \in 1..Len(modelA.tables) :
                  \E j \in 1..Len(modelB.tables) : modelB.tables[j] = modelA.tables[i])
                => /\ dbDiff.tables.added = extra
                   /\ dbDiff.tables.removed = <<>>
                   /\ dbDiff.tables.modified = <<>>

C2_Witness ==
    /\ Diffed
    /\ dbDiff.tables.added # <<>>
    /\ dbDiff.tables.removed # <<>>

C2_WitnessExtra ==
    /\ Diffed
    /\ modelA.tables # <<>>
    /\ Len(modelB.tables) > Len(modelA.tables)
    /\ \A i \in 1..Len(modelA.tables) :
          \E j \in 1..Len(modelB.tables) : modelB.tables[j] = modelA.tables[i]

(***************************************************************************)
(* C3: executed in order on a database shaped like the old snapshot, the   *)
(* statements of the migration end in a database with the tables of the    *)
(* new snapshot, each with exactly its columns at the native types of the  *)
(* dialect.                                                                *)
(***************************************************************************)
C3_MigrationReachesTarget ==
    Migrated =>
        ExecuteAll(DatabaseOf(modelA, target), migration.v.sql) = DatabaseOf(modelB, target)

C3_Witness ==
    /\ Migrated
    /\ IsSqlite(target)
    /\ dbDiff.tables.removed # <<>>
    /\ \E i \in 1..Len(dbDiff.tables.modified) :
          LET m == dbDiff.tables.modified[i]
          IN /\ m.fieldsAdded # <<>>
             /\ \E j \in 1..Len(m.fieldsModified) : Truthy(m.fieldsModified[j].changes.type)

(***************************************************************************)
(* C4: the statements of a migration come in the fixed order: the DROP     *)
(* TABLEs of the removed tables, the CREATE TABLEs of the added tables,    *)
(* then per table modification, in diff order, the statements of its added *)
(* columns, of its removed columns and of its attribute changes, and last  *)
(* the policy statements.                                                  *)
(***************************************************************************)
PolicyKinds == {"DROP POLICY IF EXISTS", "CREATE POLICY"}

\* the place of a statement of a table modification: 0 for an added column,
\* 1 for a removed column, 2 for an attribute change
PhaseOf(stmt, modification) ==
    IF /\ stmt.kind \in {"ADD COLUMN", "ADD CONSTRAINT"}
       /\ stmt.column \in Names(modification.fieldsAdded)
    THEN 0
    ELSE IF \/ /\ stmt.kind = "DROP COLUMN"
               /\ stmt.column \in Names(modification.fieldsRemoved)
            \/ /\ stmt.kind = "DROP CONSTRAINT IF EXISTS"
               /\ \E n \in Names(modification.fieldsRemoved) :
                     stmt.constraint = constraintNameOf(modification.tableName, n)
    THEN 1
    ELSE 2

RankOf(stmt, diff) ==
    LET modified == diff.tables.modified
    IN CASE stmt.kind = "DROP TABLE IF EXISTS" -> 0
         [] stmt.kind \in {"CREATE TABLE", "ENABLE ROW LEVEL SECURITY"} -> 1
         [] stmt.kind \in PolicyKinds -> 2 + 3 * Len(modified)
         [] OTHER ->
              LET i == CHOOSE k \in 1..Len(modified) : modified[k].tableName = stmt.table
              IN 2 + 3 * (i - 1) + PhaseOf(stmt, modified[i])

C4_StatementOrder ==
    Migrated =>
        LET sql == migration.v.sql
            drops == SelectSeq(sql, LAMBDA st : st.kind = "DROP TABLE IF EXISTS")
            creates == SelectSeq(sql, LAMBDA st : st.kind = "CREATE TABLE")
        IN /\ \A i \in 1..Len(sql) :
                 \/ sql[i].kind \in {"DROP TABLE IF EXISTS", "CREATE TABLE",
                                      "ENABLE ROW LEVEL SECURITY"} \cup PolicyKinds
                 \/ \E k \in 1..Len(dbDiff.tables.modified) :
                       dbDiff.tables.modified[k].tableName = sql[i].table
           /\ \A i, j \in 1..Len(sql) : i < j => RankOf(sql[i], dbDiff) <= RankOf(sql[j], dbDiff)
           /\ drops = [i \in 1..Len(dbDiff.tables.removed) |->
                          DropTableSQL(dbDiff.tables.removed[i].name)]
           /\ [i \in 1..Len(creates) |-> creates[i].table]
                 = [i \in 1..Len(dbDiff.tables.added) |-> dbDiff.tables.added[i].name]

C4_Witness ==
    /\ Migrated
    /\ target = POSTGRESQL
    /\ dbDiff.tables.removed # <<>>
    /\ dbDiff.accessControl.tables # <<>>
    /\ \E i \in 1..Len(dbDiff.tables.modified) :
          /\ dbDiff.tables.modified[i].fieldsAdded # <<>>
          /\ dbDiff.tables.modified[i].fieldsRemoved # <<>>

C4_WitnessAttributes ==
    /\ Migrated
    /\ target = POSTGRESQL
    /\ dbDiff.tables.added # <<>>
    /\ \E i \in 1..Len(dbDiff.tables.modified) :
          /\ dbDiff.tables.modified[i].fieldsAdded # <<>>
          /\ dbDiff.tables.modified[i].fieldsModified # <<>>

(***************************************************************************)
(* C5: on PostgreSQL the initial migration of a snapshot holds, for every  *)
(* table, one ENABLE ROW LEVEL SECURITY statement and one CREATE POLICY    *)
(* statement for each of the four operations, and the access-control diff  *)
(* it returns has one entry per table with all four operations recorded.   *)
(***************************************************************************)
ModelOf(k) == IF k = "A" THEN modelA ELSE modelB

C5_InitialPolicies ==
    \A k \in {"A", "B"} :
        (target = POSTGRESQL /\ initial[k].t = "ok") =>
            LET sql == initial[k].v.sql
                tables == ModelOf(k).tables
                entries == initial[k].v.accessControlDiff.tables
            IN /\ \A i \in 1..Len(tables) :
                     /\ Count(sql, LAMBDA st : st.kind = "ENABLE ROW LEVEL SECURITY"
                                                /\ st.table = tables[i].name) = 1
                     /\ \A o \in 1..Len(Operations) :
                           Count(sql, LAMBDA st :
                                   /\ st.kind = "CREATE POLICY"
                                   /\ st.table = tables[i].name
                                   /\ st.policy = policyNameOf(tables[i].name, Operations[o])
                                   /\ st.for = PolicyFor[Operations[o]].for) = 1
               /\ Count(sql, LAMBDA st : st.kind = "CREATE POLICY") = 4 * Len(tables)
               /\ Len(entries) = Len(tables)
               /\ \A i \in 1..Len(tables) :
                     /\ entries[i].tableName = tables[i].name
                     /\ \A o \in 1..Len(Operations) :
                           /\ entries[i].changes[Operations[o]] # Undefined
                           /\ entries[i].changes[Operations[o]].to
                                 = tables[i].accessControl[Operations[o]]

C5_Witness ==
    /\ target = POSTGRESQL
    /\ initial["A"].t = "ok"
    /\ Len(modelA.tables) = MaxTables
    /\ \E i \in 1..Len(modelA.tables) : modelA.tables[i].accessControl.read = CondOwner

(***************************************************************************)
(* C6: on the two SQLite dialects neither the initial migration nor the    *)
(* migration of a diff holds a policy-related statement (ENABLE ROW LEVEL  *)
(* SECURITY, DROP POLICY, CREATE POLICY), also when the diff records       *)
(* access-control changes.                                                 *)
(***************************************************************************)
PolicyRelated(stmt) == stmt.kind \in PolicyKinds \cup {"ENABLE ROW LEVEL SECURITY"}

C6_NoPoliciesOnSqlite ==
    IsSqlite(target) =>
        /\ \A k \in {"A", "B"} :
              initial[k].t = "ok" =>
                  /\ \A i \in 1..Len(initial[k].v.sql) : ~PolicyRelated(initial[k].v.sql[i])
                  /\ initial[k].v.accessControlDiff.tables = <<>>
        /\ migration.t = "ok" =>
              \A i \in 1..Len(migration.v.sql) : ~PolicyRelated(migration.v.sql[i])

C6_Witness ==
    /\ IsSqlite(target)
    /\ Migrated
    /\ initial["A"].t = "ok"
    /\ modelA.tables # <<>>
    /\ dbDiff.tables.added # <<>>
    /\ \E i \in 1..Len(dbDiff.tables.modified) : dbDiff.tables.modified[i].accessControlChanged

(***************************************************************************)
(* C7: on PostgreSQL the policy statements of the initial migration of a   *)
(* snapshot are those of the migration of the diff from the snapshot       *)
(* without tables to it, in the same order, and the two access-control     *)
(* diffs returned are equal.                                               *)
(***************************************************************************)
EmptyModel == DataModel(<<>>)

PolicyStatements(sql) == SelectSeq(sql, LAMBDA st : st.kind \in PolicyKinds)

C7_BootstrapPoliciesAsFromEmpty ==
    (pc = "migrated" /\ target = POSTGRESQL /\ modelA = EmptyModel) =>
        /\ initial["B"].t = "ok" <=> migration.t = "ok"
        /\ initial["B"].t = "ok" =>
              /\ PolicyStatements(initial["B"].v.sql) = PolicyStatements(migration.v.sql)
              /\ initial["B"].v.accessControlDiff = migration.v.accessControlDiff

C7_Witness ==
    /\ Migrated
    /\ target = POSTGRESQL
    /\ modelA = EmptyModel
    /\ Len(modelB.tables) = MaxTables
    /\ \E i \in 1..Len(modelB.tables) : modelB.tables[i].accessControl.read = CondOwner
    /\ PolicyStatements(migration.v.sql) # <<>>

(***************************************************************************)
(* C8: two calls of generateMigrationFromDiff with the same diff, target   *)
(* snapshot and dialect return the same result, whatever the moment of     *)
(* the call.                                                               *)
(***************************************************************************)
C8_Deterministic ==
    [][(migration.t # "none" /\ migration'.t # "none") => migration' = migration]_vars

(***************************************************************************)
(* C9: on the SQLite dialects a type change of a field yields exactly four *)
(* statements for the field, in the order ADD COLUMN of a temporary column *)
(* of the new type, UPDATE casting the original into it, DROP COLUMN of    *)
(* the original, RENAME COLUMN of the temporary column to the original     *)
(* name, all with the same temporary name; on PostgreSQL it yields exactly *)
(* one ALTER COLUMN TYPE statement and no rebuild.                         *)
(***************************************************************************)
Mentions(stmt, table, column) ==
    /\ stmt.table = table
    /\ \/ "column" \in DOMAIN stmt /\ stmt.column = column
       \/ "from" \in DOMAIN stmt /\ stmt.from = column
       \/ "to" \in DOMAIN stmt /\ stmt.to = column

RebuildKinds == {"ADD COLUMN", "UPDATE SET CAST", "DROP COLUMN", "RENAME COLUMN"}

C9_TypeChangeStatements ==
    Migrated =>
        \A i \in 1..Len(dbDiff.tables.modified) :
            LET m == dbDiff.tables.modified[i]
            IN \A j \in 1..Len(m.fieldsModified) :
                 LET name == m.fieldsModified[j].field.name
                     change == m.fieldsModified[j].changes.type
                     sql == migration.v.sql
                 IN Truthy(change) =>
                      IF IsSqlite(target)
                      THEN \E s \in 1..Len(sql) :
                             LET tmp == sql[s].column
                                 newType == mapFieldTypeToSQL(change.to, target)
                             IN /\ sql[s].kind = "ADD COLUMN"
                                /\ tmp # name
                                /\ SelectSeq(sql, LAMBDA st : \/ Mentions(st, m.tableName, name)
                                                              \/ Mentions(st, m.tableName, tmp))
                                     = <<[kind |-> "ADD COLUMN", table |-> m.tableName,
                                          column |-> tmp, type |-> newType,
                                          notNull |-> FALSE, default |-> NoDefault],
                                         [kind |-> "UPDATE SET CAST", table |-> m.tableName,
                                          column |-> tmp, from |-> name, type |-> newType],
                                         [kind |-> "DROP COLUMN", table |-> m.tableName,
                                          column |-> name],
                                         [kind |-> "RENAME COLUMN", table |-> m.tableName,
                                          column |-> tmp, to |-> name]>>
                                /\ s + 3 <= Len(sql)
                                /\ \A d \in 0..3 : Mentions(sql[s + d], m.tableName, tmp)
                                                     \/ Mentions(sql[s + d], m.tableName, name)
                      ELSE /\ SelectSeq(sql, LAMBDA st : /\ st.kind = "ALTER COLUMN TYPE"
                                                         /\ st.table = m.tableName)
                                = <<[kind |-> "ALTER COLUMN TYPE", table |-> m.tableName,
                                     column |-> name,
                                     type |-> mapFieldTypeToSQL(change.to, target)]>>
                           /\ \A s \in 1..Len(sql) :
                                 ~(sql[s].kind \in RebuildKinds
                                   /\ Mentions(sql[s], m.tableName, name))

C9_Witness ==
    /\ Migrated
    /\ IsSqlite(target)
    /\ \E i \in 1..Len(dbDiff.tables.modified) :
          LET m == dbDiff.tables.modified[i]
          IN /\ m.fieldsAdded # <<>>
             /\ \E j \in 1..Len(m.fieldsModified) :
                   /\ Truthy(m.fieldsModified[j].changes.type)
                   /\ Truthy(m.fieldsModified[j].changes.foreignKey)
                   /\ Truthy(m.fieldsModified[j].changes.nonNullable)

C9_WitnessPostgres ==
    /\ Migrated
    /\ target = POSTGRESQL
    /\ \E i \in 1..Len(dbDiff.tables.modified) :
          LET m == dbDiff.tables.modified[i]
          IN \E j \in 1..Len(m.fieldsModified) :
                /\ Truthy(m.fieldsModified[j].changes.type)
                /\ Truthy(m.fieldsModified[j].changes.foreignKey)

(***************************************************************************)
(* C10: there is no partial success: when the external compiler fails on a *)
(* default expression or a policy condition that the synthesis meets, the  *)
(* call ends in an error and returns no result; a result that is returned  *)
(* holds a DEFAULT clause for every declared default of a column it makes. *)
(***************************************************************************)
\* the default expressions of the fields that go to the compiler
DefaultInputs(fields) ==
    {normalizeExpression(fields[i].default) :
        i \in {j \in 1..Len(fields) : fields[j].default.t = "object"}}

AllFields(tables) == Flatten([i \in 1..Len(tables) |-> tables[i].fields])

MetByInitial(model, dialect) ==
    DefaultInputs(AllFields(model.tables))
    \cup IF dialect = POSTGRESQL
         THEN {model.tables[i].accessControl[op] :
                 i \in 1..Len(model.tables), op \in {"read", "create", "update", "delete"}}
         ELSE {}

MetByMigration(diff, dialect) ==
    DefaultInputs(AllFields(diff.tables.added))
    \cup DefaultInputs(Flatten([i \in 1..Len(diff.tables.modified) |->
                                 diff.tables.modified[i].fieldsAdded]))
    \cup IF dialect = POSTGRESQL
         THEN {normalizeExpression(fm.changes.default.to) :
                 fm \in {fm \in UNION {{diff.tables.modified[i].fieldsModified[j] :
                                          j \in 1..Len(diff.tables.modified[i].fieldsModified)} :
                                        i \in 1..Len(diff.tables.modified)} :
                           /\ Truthy(fm.changes.default)
                           /\ fm.changes.default.to.t = "object"}}
              \cup UNION {{e.changes[op].to :
                              op \in {o \in {"read", "create", "update", "delete"} :
                                         Truthy(e.changes[o])}} :
                            e \in {diff.accessControl.tables[i] :
                                     i \in 1..Len(diff.accessControl.tables)}}
         ELSE {}

C10_NoPartialSuccess ==
    /\ \A k \in {"A", "B"} :
          initial[k].t # "none" =>
              /\ (MetByInitial(ModelOf(k), target) \cap rejects # {}) => initial[k].t = "error"
              /\ initial[k].t = "ok" =>
                       LET creates == SelectSeq(initial[k].v.sql,
                                                 LAMBDA st : st.kind = "CREATE TABLE")
                            tables == ModelOf(k).tables
                       IN /\ Len(creates) = Len(tables)
                          /\ \A i \in 1..Len(tables) :
                                /\ Len(creates[i].columns) = Len(tables[i].fields)
                                /\ \A j \in 1..Len(tables[i].fields) :
                                      IF tables[i].fields[j].default = Undefined
                                      THEN creates[i].columns[j].default = NoDefault
                                      ELSE creates[i].columns[j].default # NoDefault
    /\ migration.t # "none" =>
          /\ (MetByMigration(dbDiff, target) \cap rejects # {}) => migration.t = "error"
          /\ migration.t = "ok" =>
                   \A i \in 1..Len(dbDiff.tables.modified) :
                      LET m == dbDiff.tables.modified[i]
                      IN \A j \in 1..Len(m.fieldsAdded) :
                            \E s \in 1..Len(migration.v.sql) :
                                LET st == migration.v.sql[s]
                                IN /\ st.kind = "ADD COLUMN"
                                   /\ st.table = m.tableName
                                   /\ st.column = m.fieldsAdded[j].name
                                   /\ IF m.fieldsAdded[j].default = Undefined
                                      THEN st.default = NoDefault
                                      ELSE st.default # NoDefault

C10_WitnessDefault ==
    /\ pc = "migrated"
    /\ migration.t = "error"
    /\ FuncCall("NOW", <<>>) \in rejects
    /\ CondOwner \notin rejects

C10_WitnessPolicy ==
    /\ pc = "migrated"
    /\ migration.t = "error"
    /\ initial["A"].t = "ok"
    /\ rejects = {CondOwner}

(***************************************************************************)
(* C11: when the external compiler fails, the error that the synthesizer   *)
(* propagates is a wrapped error: it carries the message of the compiler   *)
(* and names the table and the field (a default) or the table and the      *)
(* operation (a policy) of the expression that failed.                     *)
(***************************************************************************)
C11_ErrorIdentifiesOrigin ==
    \A r \in {initial["A"], initial["B"], migration} :
        r.t = "error" =>
            LET message == r.error.message
            IN /\ "cause" \in DOMAIN message
               /\ "table" \in DOMAIN message
               /\ "field" \in DOMAIN message \/ "operation" \in DOMAIN message

(***************************************************************************)
(* C12: the native type of a column is the one the documented table gives  *)
(* for the type of its field and the dialect, and TEXT for a field type    *)
(* outside the seven semantic types.                                       *)
(***************************************************************************)
DocumentedType(fieldType, dialect) ==
    CASE fieldType = "string" -> "TEXT"
      [] fieldType = "number" -> IF dialect = POSTGRESQL THEN "NUMERIC" ELSE "REAL"
      [] fieldType = "boolean" -> IF dialect = POSTGRESQL THEN "BOOLEAN" ELSE "INTEGER"
      [] fieldType = "object" -> IF dialect = POSTGRESQL THEN "JSONB"
                                 ELSE IF dialect = SQLITE_MINIMAL THEN "TEXT" ELSE "JSON"
      [] fieldType = "date" -> IF dialect = POSTGRESQL THEN "DATE" ELSE "TEXT"
      [] fieldType = "datetime" -> IF dialect = POSTGRESQL THEN "TIMESTAMP WITH TIME ZONE"
                                   ELSE "TEXT"
      [] fieldType = "uuid" -> IF dialect = POSTGRESQL THEN "UUID" ELSE "TEXT"
      [] OTHER -> "TEXT"

C12_DocumentedTypeMap ==
    \A k \in {"A", "B"} :
        initial[k].t = "ok" =>
            LET creates == SelectSeq(initial[k].v.sql, LAMBDA st : st.kind = "CREATE TABLE")
                tables == ModelOf(k).tables
            IN /\ Len(creates) = Len(tables)
               /\ \A i \in 1..Len(tables) :
                     /\ Len(creates[i].columns) = Len(tables[i].fields)
                     /\ \A j \in 1..Len(tables[i].fields) :
                           creates[i].columns[j].type
                              = DocumentedType(tables[i].fields[j].type, target)

\* the same for the seven semantic types and a type that no object has as a key
C12_KnownTypesAndPlainUnknown ==
    \A k \in {"A", "B"} :
        initial[k].t = "ok" =>
            LET creates == SelectSeq(initial[k].v.sql, LAMBDA st : st.kind = "CREATE TABLE")
                tables == ModelOf(k).tables
            IN \A i \in 1..Len(tables) :
                  \A j \in 1..Len(tables[i].fields) :
                      tables[i].fields[j].type # "constructor" =>
                          creates[i].columns[j].type
                             = DocumentedType(tables[i].fields[j].type, target)

(***************************************************************************)
(* C13: when the new snapshot is the old one except that one table has     *)
(* k >= 1 extra fields, none with a foreign key, the diff has no added and *)
(* no removed table and one modified table, whose fieldsAdded are those k  *)
(* fields and whose fieldsRemoved and fieldsModified are empty; the        *)
(* migration of that diff is, on every dialect, k statements, one ADD      *)
(* COLUMN per extra field, and nothing else.                               *)
(***************************************************************************)
ExtraFields(i) ==
    SelectSeq(modelB.tables[i].fields,
              LAMBDA f : f.name \notin Names(modelA.tables[i].fields))

\* table i of the new snapshot is table i of the old one plus extra fields,
\* and nothing else differs between the snapshots
OnlyExtraFields(i) ==
    /\ Len(modelA.tables) = Len(modelB.tables)
    /\ i \in 1..Len(modelA.tables)
    /\ \A j \in 1..Len(modelA.tables) : j # i => modelB.tables[j] = modelA.tables[j]
    /\ modelB.tables[i].name = modelA.tables[i].name
    /\ modelB.tables[i].accessControl = modelA.tables[i].accessControl
    /\ SelectSeq(modelB.tables[i].fields,
                 LAMBDA f : f.name \in Names(modelA.tables[i].fields))
          = modelA.tables[i].fields
    /\ ExtraFields(i) # <<>>
    /\ \A j \in 1..Len(ExtraFields(i)) : ~Truthy(ExtraFields(i)[j].foreignKey)

C13_ExtraFieldsOnlyAddColumns ==
    \A i \in 1..Len(modelA.tables) :
        (Diffed /\ OnlyExtraFields(i)) =>
            LET extra == ExtraFields(i)
            IN /\ dbDiff.tables.added = <<>>
               /\ dbDiff.tables.removed = <<>>
               /\ Len(dbDiff.tables.modified) = 1
               /\ dbDiff.tables.modified[1].tableName = modelB.tables[i].name
               /\ dbDiff.tables.modified[1].fieldsAdded = extra
               /\ dbDiff.tables.modified[1].fieldsRemoved = <<>>
               /\ dbDiff.tables.modified[1].fieldsModified = <<>>
               /\ Migrated =>
                     /\ Len(migration.v.sql) = Len(extra)
                     /\ \A j \in 1..Len(extra) :
                           /\ migration.v.sql[j].kind = "ADD COLUMN"
                           /\ migration.v.sql[j].table = modelB.tables[i].name
                           /\ migration.v.sql[j].column = extra[j].name
                           /\ migration.v.sql[j].type
                                 = mapFieldTypeToSQL(extra[j].type, target)

C13_Witness ==
    /\ Migrated
    /\ target = POSTGRESQL
    /\ \E i \in 1..Len(modelA.tables) :
          /\ OnlyExtraFields(i)
          /\ Len(ExtraFields(i)) = MaxFields
          /\ \E j \in 1..Len(ExtraFields(i)) : TypeOf(ExtraFields(i)[j].default) = "object"

C13_WitnessSqlite ==
    /\ Migrated
    /\ IsSqlite(target)
    /\ Len(modelA.tables) = MaxTables
    /\ \E i \in 1..Len(modelA.tables) :
          /\ OnlyExtraFields(i)
          /\ modelA.tables[i].fields # <<>>

(***************************************************************************)
(* C14: on every dialect a field of both snapshots whose default changed   *)
(* has a statement in the migration: one that removes the default when the *)
(* new default is absent, otherwise one with a DEFAULT clause holding the  *)
(* formatted new default; for the new default now() the clause is compiled *)
(* from the call with the uppercased name NOW.                             *)
(***************************************************************************)
DefaultChangeStatement(sql, tableName, fieldName, to, dialect) ==
    \E s \in 1..Len(sql) :
        /\ sql[s].table = tableName
        /\ "column" \in DOMAIN sql[s]
        /\ sql[s].column = fieldName
        /\ IF to = Undefined
           THEN sql[s].kind = "ALTER COLUMN DROP DEFAULT"
           ELSE /\ "default" \in DOMAIN sql[s]
                /\ sql[s].default = formatDefaultValue(to, dialect).v
                /\ to = FuncCall("now", <<>>) =>
                      \/ sql[s].default = Lit("CURRENT_TIMESTAMP")
                      \/ /\ sql[s].default.sql = "compiled"
                         /\ sql[s].default.input = FuncCall("NOW", <<>>)

C14_DefaultChangeStatement ==
    Migrated =>
        \A i \in 1..Len(dbDiff.tables.modified) :
            LET m == dbDiff.tables.modified[i]
            IN \A j \in 1..Len(m.fieldsModified) :
                  Truthy(m.fieldsModified[j].changes.default) =>
                      DefaultChangeStatement(migration.v.sql, m.tableName,
                                             m.fieldsModified[j].field.name,
                                             m.fieldsModified[j].changes.default.to, target)

\* the same on PostgreSQL alone
C14_DefaultChangeStatementOnPostgres ==
    target = POSTGRESQL => C14_DefaultChangeStatement

RelationshipsOf(model) ==
    IF "relationships" \in DOMAIN model THEN model.relationships ELSE <<>>

C16_RelationshipsAdded ==
    Diffed =>
        LET old == RelationshipsOf(modelA)
            new == SelectSeq(RelationshipsOf(modelB),
                             LAMBDA r : \A i \in 1..Len(old) : old[i] # r)
        IN new # <<>> =>
              /\ "relationships" \in DOMAIN dbDiff
              /\ dbDiff.relationships.added = new

(***************************************************************************)
(* C17: the diff is minimal at table level: a table whose name is in both  *)
(* snapshots is in tables.modified exactly when a field was added, removed *)
(* or modified (its declaration in the new snapshot is not its declaration *)
(* in the old one) or one of its four conditions differs; it is there at   *)
(* most once, and no table of only one snapshot is there.                  *)
(***************************************************************************)
TableOf(model, name) == model.tables[CHOOSE i \in 1..Len(model.tables) :
                                        model.tables[i].name = name]

FieldOf(table, name) == table.fields[CHOOSE i \in 1..Len(table.fields) :
                                        table.fields[i].name = name]

TableDiffers(old, new) ==
    \/ Names(old.fields) # Names(new.fields)
    \/ \E n \in Names(old.fields) \cap Names(new.fields) : FieldOf(old, n) # FieldOf(new, n)
    \/ \E op \in {"read", "create", "update", "delete"} :
          old.accessControl[op] # new.accessControl[op]

SameAttributeValues(old, new) ==
    /\ old.type = new.type
    /\ OrFalse(old.nonNullable) = OrFalse(new.nonNullable)
    /\ OrFalse(old.primaryKey) = OrFalse(new.primaryKey)
    /\ old.default = new.default
    /\ old.foreignKey = new.foreignKey

C18_OnlyDifferingAttributes ==
    Diffed =>
        \A i \in 1..Len(dbDiff.tables.modified) :
            LET m == dbDiff.tables.modified[i]
                old == TableOf(modelA, m.tableName)
            IN \A j \in 1..Len(m.fieldsModified) :
                  LET fm == m.fieldsModified[j]
                  IN /\ \A attr \in FieldAttributes :
                           fm.changes[attr] # Undefined =>
                               fm.changes[attr].from # fm.changes[attr].to
                     /\ ~SameAttributeValues(FieldOf(old, fm.field.name), fm.field)

(***************************************************************************)
(* C19: in the access-control diff a table of the new snapshot that the    *)
(* old one lacks has an entry with the four operations, each from true to  *)
(* its declared condition; a table of both has an entry with exactly the   *)
(* operations whose conditions differ, from the old to the new condition,  *)
(* and no entry when none differs; a table of the old snapshot only has no *)
(* entry.                                                                  *)
(***************************************************************************)
EntriesOf(name) ==
    SelectSeq(dbDiff.accessControl.tables, LAMBDA e : e.tableName = name)

C19_AccessControlEntries ==
    Diffed =>
        LET namesA == Names(modelA.tables)
            namesB == Names(modelB.tables)
            ops == {"read", "create", "update", "delete"}
        IN /\ \A i \in 1..Len(dbDiff.accessControl.tables) :
                 dbDiff.accessControl.tables[i].tableName \in namesB
           /\ \A n \in namesB \ namesA :
                 /\ Len(EntriesOf(n)) = 1
                 /\ \A op \in ops :
                       /\ EntriesOf(n)[1].changes[op] # Undefined
                       /\ EntriesOf(n)[1].changes[op].from = JBool(TRUE)
                       /\ EntriesOf(n)[1].changes[op].to
                             = TableOf(modelB, n).accessControl[op]
           /\ \A n \in namesA \cap namesB :
                 LET old == TableOf(modelA, n).accessControl
                     new == TableOf(modelB, n).accessControl
                     differing == {op \in ops : old[op] # new[op]}
                 IN IF differing = {} THEN EntriesOf(n) = <<>>
                    ELSE /\ Len(EntriesOf(n)) = 1
                         /\ \A op \in ops \ differing :
                               EntriesOf(n)[1].changes[op] = Undefined
                         /\ \A op \in differing :
                               /\ EntriesOf(n)[1].changes[op] # Undefined
                               /\ EntriesOf(n)[1].changes[op].from = old[op]
                               /\ EntriesOf(n)[1].changes[op].to = new[op]
           /\ \A n \in namesA \ namesB : EntriesOf(n) = <<>>

C19_Witness ==
    /\ Diffed
    /\ Names(modelB.tables) \ Names(modelA.tables) # {}
    /\ \E n \in Names(modelA.tables) \cap Names(modelB.tables) :
          /\ TableOf(modelA, n).accessControl.read # TableOf(modelB, n).accessControl.read
          /\ TableOf(modelA, n).accessControl.create = TableOf(modelB, n).accessControl.create
          /\ Len(EntriesOf(n)) = 1

C19_WitnessRemoved ==
    /\ Diffed
    /\ Names(modelA.tables) \ Names(modelB.tables) # {}
    /\ \E n \in Names(modelA.tables) \cap Names(modelB.tables) :
          TableOf(modelA, n).accessControl = TableOf(modelB, n).accessControl

(***************************************************************************)
(* C20: on PostgreSQL the policy statements of a migration are, entry by   *)
(* entry of the access-control diff, the four DROP POLICY IF EXISTS of the *)
(* table (read, create, update, delete), whatever changed, followed by one *)
(* CREATE POLICY for each operation recorded as changed and none for the   *)
(* others; every CREATE POLICY comes after the DROP POLICY IF EXISTS of    *)
(* the same policy on the same table, and its predicate is compiled from   *)
(* the to condition.                                                       *)
(***************************************************************************)
PolicyBlockOf(sql, tableName) ==
    SelectSeq(sql, LAMBDA st : st.kind \in PolicyKinds /\ st.table = tableName)

C20_PolicyBlocks ==
    (Migrated /\ target = POSTGRESQL) =>
        LET sql == migration.v.sql
            entries == dbDiff.accessControl.tables
        IN /\ PolicyStatements(sql)
                 = Flatten([i \in 1..Len(entries) |-> PolicyBlockOf(sql, entries[i].tableName)])
           /\ \A i \in 1..Len(entries) :
                 LET block == PolicyBlockOf(sql, entries[i].tableName)
                     changed == SelectSeq(Operations,
                                          LAMBDA op : entries[i].changes[op] # Undefined)
                 IN /\ Len(block) = 4 + Len(changed)
                    /\ \A o \in 1..4 :
                          /\ block[o].kind = "DROP POLICY IF EXISTS"
                          /\ block[o].policy = policyNameOf(entries[i].tableName, Operations[o])
                    /\ \A c \in 1..Len(changed) :
                          /\ block[4 + c].kind = "CREATE POLICY"
                          /\ block[4 + c].policy = policyNameOf(entries[i].tableName, changed[c])
                          /\ block[4 + c].for = PolicyFor[changed[c]].for
                          /\ block[4 + c].condition.sql = "compiled"
                          /\ block[4 + c].condition.input = entries[i].changes[changed[c]].to
                          /\ block[4 + c].condition.state.rootTable = entries[i].tableName
           /\ \A s \in 1..Len(sql) :
                 sql[s].kind = "CREATE POLICY" =>
                     \E r \in 1..(s - 1) :
                         /\ sql[r].kind = "DROP POLICY IF EXISTS"
                         /\ sql[r].table = sql[s].table
                         /\ sql[r].policy = sql[s].policy

C20_Witness ==
    /\ Migrated
    /\ target = POSTGRESQL
    /\ Len(dbDiff.accessControl.tables) = MaxTables
    /\ \E i \in 1..Len(dbDiff.accessControl.tables) :
          LET changes == dbDiff.accessControl.tables[i].changes
          IN /\ changes.read # Undefined
             /\ changes.create = Undefined
             /\ changes.read.to = CondOwner

(***************************************************************************)
(* An abstract PostgreSQL database that also keeps the foreign-key         *)
(* constraints and the row-level-security policies: a statement that       *)
(* PostgreSQL refuses leaves it failed and is where the execution stops.   *)
(***************************************************************************)
EmptyPgDatabase ==
    [ok |-> TRUE, tables |-> {}, columns |-> {}, constraints |-> {}, policies |-> {}]

PgHasColumn(db, table, column) == [table |-> table, column |-> column] \in db.columns

PgFailed(db) == [db EXCEPT !.ok = FALSE]

\* the constraints of other tables that reference the table
ReferencesTo(db, table) == {c \in db.constraints : c.references = table /\ c.table # table}

PgExecute(db, stmt) ==
    IF ~db.ok THEN db
    ELSE CASE stmt.kind = "DROP TABLE IF EXISTS" ->
                IF ReferencesTo(db, stmt.table) # {} THEN PgFailed(db)
                ELSE [db EXCEPT !.tables = @ \ {stmt.table},
                                !.columns = {c \in @ : c.table # stmt.table},
                                !.constraints = {c \in @ : c.table # stmt.table},
                                !.policies = {p \in @ : p.table # stmt.table}]
           [] stmt.kind = "CREATE TABLE" ->
                IF stmt.table \in db.tables THEN PgFailed(db)
                ELSE [db EXCEPT !.tables = @ \cup {stmt.table},
                                !.columns = @ \cup {[table |-> stmt.table,
                                                     column |-> stmt.columns[i].name] :
                                                       i \in 1..Len(stmt.columns)}]
           [] stmt.kind = "ADD COLUMN" ->
                IF stmt.table \notin db.tables \/ PgHasColumn(db, stmt.table, stmt.column)
                THEN PgFailed(db)
                ELSE [db EXCEPT !.columns = @ \cup {[table |-> stmt.table,
                                                     column |-> stmt.column]}]
           [] stmt.kind = "DROP COLUMN" ->
                IF ~PgHasColumn(db, stmt.table, stmt.column) THEN PgFailed(db)
                ELSE [db EXCEPT !.columns = @ \ {[table |-> stmt.table,
                                                  column |-> stmt.column]},
                                !.constraints = {c \in @ : ~(c.table = stmt.table
                                                              /\ c.column = stmt.column)}]
           [] stmt.kind = "ADD CONSTRAINT" ->
                IF \/ ~PgHasColumn(db, stmt.table, stmt.column)
                   \/ ~PgHasColumn(db, stmt.references.table, stmt.references.field)
                   \/ \E c \in db.constraints : c.table = stmt.table /\ c.name = stmt.constraint
                THEN PgFailed(db)
                ELSE [db EXCEPT !.constraints = @ \cup {[name |-> stmt.constraint,
                                                         table |-> stmt.table,
                                                         column |-> stmt.column,
                                                         references |-> stmt.references.table,
                                                         field |-> stmt.references.field,
                                                         onDelete |-> stmt.references.onDelete,
                                                         onUpdate |-> stmt.references.onUpdate]}]
           [] stmt.kind = "DROP CONSTRAINT IF EXISTS" ->
                IF stmt.table \notin db.tables THEN PgFailed(db)
                ELSE [db EXCEPT !.constraints = {c \in @ : ~(c.table = stmt.table
                                                              /\ c.name = stmt.constraint)}]
           [] stmt.kind = "CREATE POLICY" ->
                IF \/ stmt.table \notin db.tables
                   \/ \E p \in db.policies : p.table = stmt.table /\ p.name = stmt.policy
                THEN PgFailed(db)
                ELSE [db EXCEPT !.policies = @ \cup {[name |-> stmt.policy,
                                                      table |-> stmt.table,
                                                      for |-> stmt.for,
                                                      condition |-> stmt.condition]}]
           [] stmt.kind = "DROP POLICY IF EXISTS" ->
                IF stmt.table \notin db.tables THEN PgFailed(db)
                ELSE [db EXCEPT !.policies = {p \in @ : ~(p.table = stmt.table
                                                           /\ p.name = stmt.policy)}]
           [] stmt.kind = "ENABLE ROW LEVEL SECURITY" ->
                IF stmt.table \in db.tables THEN db ELSE PgFailed(db)
           [] OTHER ->
                IF PgHasColumn(db, stmt.table, stmt.column) THEN db ELSE PgFailed(db)

RECURSIVE PgExecuteAll(_, _)
PgExecuteAll(db, stmts) ==
    IF stmts = <<>> THEN db ELSE PgExecuteAll(PgExecute(db, Head(stmts)), Tail(stmts))

\* the database before the i-th statement of the migration, bootstrapped from
\* the old snapshot
PgBefore(i) ==
    PgExecuteAll(PgExecuteAll(EmptyPgDatabase, initial["A"].v.sql),
                 SubSeq(migration.v.sql, 1, i - 1))

\* the database after the bootstrap of the old snapshot and the migration
PgMigrated == PgBefore(Len(migration.v.sql) + 1)

\* every foreign key of the snapshot references a field of a table of the snapshot
Closed(model) ==
    \A i \in 1..Len(model.tables) : \A j \in 1..Len(model.tables[i].fields) :
        LET fk == model.tables[i].fields[j].foreignKey
        IN Truthy(fk) =>
              \E k \in 1..Len(model.tables) :
                 /\ model.tables[k].name = Get(fk, "table").s
                 /\ Get(fk, "field").s \in Names(model.tables[k].fields)

PgMigratedFromDiff ==
    /\ Migrated
    /\ target = POSTGRESQL
    /\ initial["A"].t = "ok"

(***************************************************************************)
(* C21: on PostgreSQL, executed in order on a database bootstrapped from   *)
(* the old snapshot, the migration of the diff of two snapshots whose      *)
(* foreign keys reference tables of their own snapshot drops no table that *)
(* a foreign-key constraint of a table of the new snapshot still           *)
(* references, and adds no foreign-key constraint before the referenced    *)
(* table and the referencing column exist.                                 *)
(***************************************************************************)
C21_ForeignKeyDependencyOrder ==
    (PgMigratedFromDiff /\ Closed(modelA) /\ Closed(modelB)) =>
        \A i \in 1..Len(migration.v.sql) :
            LET stmt == migration.v.sql[i]
                db == PgBefore(i)
            IN /\ stmt.kind = "DROP TABLE IF EXISTS" =>
                     \A c \in ReferencesTo(db, stmt.table) :
                         c.table \notin Names(modelB.tables)
               /\ stmt.kind = "ADD CONSTRAINT" =>
                     /\ stmt.references.table \in db.tables
                     /\ PgHasColumn(db, stmt.table, stmt.column)

\* the second half alone: no constraint is added before its referenced table
\* and its referencing column exist
C21_AddConstraintAfterItsTableAndColumn ==
    (PgMigratedFromDiff /\ Closed(modelA) /\ Closed(modelB)) =>
        \A i \in 1..Len(migration.v.sql) :
            LET stmt == migration.v.sql[i]
                db == PgBefore(i)
            IN stmt.kind = "ADD CONSTRAINT" =>
                  /\ stmt.references.table \in db.tables
                  /\ PgHasColumn(db, stmt.table, stmt.column)

(***************************************************************************)
(* C22: the statements of an initial migration are ordered: the CREATE     *)
(* TABLEs of the tables in snapshot order, then on PostgreSQL exactly one  *)
(* ADD CONSTRAINT per field that declares a foreign key, then the policy   *)
(* statements; on the SQLite dialects each foreign key is an inline clause *)
(* of its table's CREATE TABLE and there is no ADD CONSTRAINT; every ADD   *)
(* CONSTRAINT follows the CREATE TABLE of its own table and of the         *)
(* referenced table when the snapshot has it.                              *)
(***************************************************************************)
\* the fields of the table that declare a foreign key
WithForeignKey(table) == SelectSeq(table.fields, LAMBDA f : Truthy(f.foreignKey))

\* the place of a statement of an initial migration
InitialRankOf(stmt) ==
    IF stmt.kind \in {"CREATE TABLE", "ENABLE ROW LEVEL SECURITY"} THEN 0
    ELSE IF stmt.kind = "ADD CONSTRAINT" THEN 1
    ELSE IF stmt.kind \in PolicyKinds THEN 2
    ELSE 3

C22_InitialMigrationOrder ==
    \A k \in {"A", "B"} :
        initial[k].t = "ok" =>
            LET sql == initial[k].v.sql
                tables == ModelOf(k).tables
                creates == SelectSeq(sql, LAMBDA st : st.kind = "CREATE TABLE")
                adds == SelectSeq(sql, LAMBDA st : st.kind = "ADD CONSTRAINT")
            IN /\ Len(creates) = Len(tables)
               /\ \A i \in 1..Len(tables) : creates[i].table = tables[i].name
               /\ \A i \in 1..Len(sql) : InitialRankOf(sql[i]) \in 0..2
               /\ \A i, j \in 1..Len(sql) :
                     i < j => InitialRankOf(sql[i]) <= InitialRankOf(sql[j])
               /\ IF target = POSTGRESQL
                  THEN /\ \A i \in 1..Len(tables) :
                             /\ creates[i].foreignKeys = <<>>
                             /\ \A j \in 1..Len(tables[i].fields) :
                                   LET field == tables[i].fields[j]
                                   IN Count(adds, LAMBDA st :
                                              /\ st.table = tables[i].name
                                              /\ st.column = field.name)
                                         = IF Truthy(field.foreignKey) THEN 1 ELSE 0
                       /\ Len(adds) = Len(Flatten([i \in 1..Len(tables) |->
                                                     WithForeignKey(tables[i])]))
                       /\ \A i \in 1..Len(sql) :
                             sql[i].kind = "ADD CONSTRAINT" =>
                                /\ FieldOf(TableOf(ModelOf(k), sql[i].table), sql[i].column)
                                      .foreignKey # Undefined
                                /\ sql[i].references
                                      = References(FieldOf(TableOf(ModelOf(k), sql[i].table),
                                                           sql[i].column).foreignKey)
                                /\ \E j \in 1..(i - 1) :
                                      /\ sql[j].kind = "CREATE TABLE"
                                      /\ sql[j].table = sql[i].table
                                /\ sql[i].references.table \in Names(tables) =>
                                      \E j \in 1..(i - 1) :
                                         /\ sql[j].kind = "CREATE TABLE"
                                         /\ sql[j].table = sql[i].references.table
                  ELSE /\ adds = <<>>
                       /\ \A i \in 1..Len(tables) :
                             LET withFk == WithForeignKey(tables[i])
                             IN /\ Len(creates[i].foreignKeys) = Len(withFk)
                                /\ \A j \in 1..Len(withFk) :
                                      /\ creates[i].foreignKeys[j].column = withFk[j].name
                                      /\ creates[i].foreignKeys[j].references
                                            = References(withFk[j].foreignKey)

\* PostgreSQL: a table with a foreign key placed before the table it references
C22_Witness ==
    /\ target = POSTGRESQL
    /\ initial["A"] # None
    /\ initial["A"].t = "ok"
    /\ Len(modelA.tables) = 2
    /\ WithForeignKey(modelA.tables[1]) # <<>>
    /\ modelA.tables[2].name = "t2"
    /\ \E i \in 1..Len(initial["A"].v.sql) : initial["A"].v.sql[i].kind = "ADD CONSTRAINT"

\* SQLite: the foreign key inline in CREATE TABLE
C22_WitnessSqlite ==
    /\ IsSqlite(target)
    /\ initial["B"] # None
    /\ initial["B"].t = "ok"
    /\ \E i \in 1..Len(initial["B"].v.sql) :
          /\ initial["B"].v.sql[i].kind = "CREATE TABLE"
          /\ initial["B"].v.sql[i].foreignKeys # <<>>

(***************************************************************************)
(* C23: on PostgreSQL, in the migration of a diff, an added field that     *)
(* declares a foreign key has its ADD CONSTRAINT right after its ADD       *)
(* COLUMN, a removed field that declared one has its DROP CONSTRAINT right *)
(* before its DROP COLUMN, and an added or removed field without a foreign *)
(* key has no constraint statement.                                        *)
(***************************************************************************)
\* the positions of the statements of that kind on that column
PositionsOf(sql, kind, tableName, fieldName) ==
    {i \in 1..Len(sql) : /\ sql[i].kind = kind
                         /\ sql[i].table = tableName
                         /\ sql[i].column = fieldName}

\* the statements on the constraint of that column
ConstraintStatements(sql, tableName, fieldName) ==
    SelectSeq(sql, LAMBDA st : /\ st.kind \in {"ADD CONSTRAINT", "DROP CONSTRAINT IF EXISTS"}
                               /\ st.table = tableName
                               /\ st.constraint = constraintNameOf(tableName, fieldName))

C23_ConstraintNextToItsColumn ==
    (Migrated /\ target = POSTGRESQL) =>
        LET sql == migration.v.sql
        IN \A m \in 1..Len(dbDiff.tables.modified) :
              LET modification == dbDiff.tables.modified[m]
                  tableName == modification.tableName
              IN /\ \A f \in 1..Len(modification.fieldsAdded) :
                       LET field == modification.fieldsAdded[f]
                           at == PositionsOf(sql, "ADD COLUMN", tableName, field.name)
                       IN /\ Cardinality(at) = 1
                          /\ IF Truthy(field.foreignKey)
                             THEN /\ \A i \in at :
                                        /\ i < Len(sql)
                                        /\ sql[i + 1] = AddConstraintSQL(tableName, field.name,
                                                                         field.foreignKey)
                                  /\ Len(ConstraintStatements(sql, tableName, field.name)) = 1
                             ELSE ConstraintStatements(sql, tableName, field.name) = <<>>
                 /\ \A f \in 1..Len(modification.fieldsRemoved) :
                       LET field == modification.fieldsRemoved[f]
                           at == PositionsOf(sql, "DROP COLUMN", tableName, field.name)
                       IN /\ Cardinality(at) = 1
                          /\ IF Truthy(field.foreignKey)
                             THEN /\ \A i \in at :
                                        /\ i > 1
                                        /\ sql[i - 1] = DropConstraintSQL(tableName, field.name)
                                  /\ Len(ConstraintStatements(sql, tableName, field.name)) = 1
                             ELSE ConstraintStatements(sql, tableName, field.name) = <<>>

\* a field with a foreign key added next to a field without
C23_Witness ==
    /\ Migrated
    /\ target = POSTGRESQL
    /\ \E m \in 1..Len(dbDiff.tables.modified) :
          LET added == dbDiff.tables.modified[m].fieldsAdded
          IN /\ Len(added) = 2
             /\ Truthy(added[1].foreignKey)
             /\ ~Truthy(added[2].foreignKey)

\* a field with a foreign key removed
C23_WitnessRemoved ==
    /\ Migrated
    /\ target = POSTGRESQL
    /\ \E m \in 1..Len(dbDiff.tables.modified) :
          \E f \in 1..Len(dbDiff.tables.modified[m].fieldsRemoved) :
             Truthy(dbDiff.tables.modified[m].fieldsRemoved[f].foreignKey)

(***************************************************************************)
(* C24: on PostgreSQL, when the foreign key of a field of both snapshots   *)
(* differs, the migration holds a DROP CONSTRAINT for the field exactly    *)
(* when the old snapshot declared a descriptor and an ADD CONSTRAINT of    *)
(* the new descriptor exactly when the new snapshot declares one, the drop *)
(* before the add; every ADD CONSTRAINT of the two bootstraps and of the   *)
(* migration is named after its table and column only, and executed after  *)
(* the bootstrap of the old snapshot the migration leaves on the field the *)
(* constraint that the bootstrap of the new snapshot creates.              *)
(***************************************************************************)
\* the fields of both snapshots, as (table, old field, new field)
FieldsOfBoth ==
    {[table |-> modelA.tables[i].name, old |-> modelA.tables[i].fields[j],
      new |-> FieldOf(TableOf(modelB, modelA.tables[i].name), modelA.tables[i].fields[j].name)] :
        <<i, j>> \in {p \in (1..Len(modelA.tables)) \X (1..MaxFields) :
                        /\ p[2] <= Len(modelA.tables[p[1]].fields)
                        /\ modelA.tables[p[1]].name \in Names(modelB.tables)
                        /\ modelA.tables[p[1]].fields[p[2]].name
                              \in Names(TableOf(modelB, modelA.tables[p[1]].name).fields)}}

\* the constraints of the column in the database
ConstraintsOn(db, tableName, fieldName) ==
    {c \in db.constraints : c.table = tableName /\ c.column = fieldName}

C24_ForeignKeyChange ==
    (PgMigratedFromDiff /\ initial["B"].t = "ok") =>
        LET sql == migration.v.sql
        IN /\ \A both \in FieldsOfBoth :
                 ~deepEqual(both.old.foreignKey, both.new.foreignKey) =>
                    LET stmts == ConstraintStatements(sql, both.table, both.old.name)
                        drops == SelectSeq(stmts, LAMBDA st :
                                             st.kind = "DROP CONSTRAINT IF EXISTS")
                        adds == SelectSeq(stmts, LAMBDA st : st.kind = "ADD CONSTRAINT")
                    IN /\ Len(drops) = IF Truthy(both.old.foreignKey) THEN 1 ELSE 0
                       /\ Len(adds) = IF Truthy(both.new.foreignKey) THEN 1 ELSE 0
                       /\ stmts = drops \o adds
                       /\ \A i \in 1..Len(adds) :
                             adds[i] = AddConstraintSQL(both.table, both.new.name,
                                                        both.new.foreignKey)
                       /\ PgMigrated.ok =>
                             ConstraintsOn(PgMigrated, both.table, both.old.name)
                             = ConstraintsOn(PgExecuteAll(EmptyPgDatabase, initial["B"].v.sql),
                                             both.table, both.old.name)
           /\ \A st \in {sql[i] : i \in 1..Len(sql)}
                        \cup {initial["A"].v.sql[i] : i \in 1..Len(initial["A"].v.sql)}
                        \cup {initial["B"].v.sql[i] : i \in 1..Len(initial["B"].v.sql)} :
                 st.kind = "ADD CONSTRAINT" =>
                    st.constraint = "fk_" \o st.table \o "_" \o st.column

\* one descriptor replaced by another
C24_Witness ==
    /\ PgMigratedFromDiff
    /\ initial["B"].t = "ok"
    /\ \E both \in FieldsOfBoth :
          /\ Truthy(both.old.foreignKey)
          /\ Truthy(both.new.foreignKey)
          /\ ~deepEqual(both.old.foreignKey, both.new.foreignKey)
          /\ Len(ConstraintStatements(migration.v.sql, both.table, both.old.name)) = 2
    /\ PgMigrated.ok

\* a descriptor removed, and a descriptor added
C24_WitnessOneSided ==
    /\ PgMigratedFromDiff
    /\ \E both \in FieldsOfBoth :
          /\ Truthy(both.old.foreignKey) # Truthy(both.new.foreignKey)
          /\ Len(ConstraintStatements(migration.v.sql, both.table, both.old.name)) = 1

(***************************************************************************)
(* C25: when the nonNullable of a field of both snapshots differs, the     *)
(* migration holds on PostgreSQL exactly one nullability statement for the *)
(* column, SET NOT NULL when the new value is non-nullable and DROP NOT    *)
(* NULL otherwise, and on the SQLite dialects none; when nothing else of   *)
(* the field differs, the SQLite migration has no statement on the column  *)
(* at all, and the call returns a result.                                  *)
(***************************************************************************)
NullabilityKinds == {"ALTER COLUMN SET NOT NULL", "ALTER COLUMN DROP NOT NULL"}

\* the nullability statements on the column
NullabilityStatements(sql, tableName, fieldName) ==
    SelectSeq(sql, LAMBDA st : /\ st.kind \in NullabilityKinds
                               /\ st.table = tableName
                               /\ st.column = fieldName)

\* the statements that name the column
StatementsOn(sql, tableName, fieldName) ==
    SelectSeq(sql, LAMBDA st : /\ st.table = tableName
                               /\ \/ "column" \in DOMAIN st /\ st.column = fieldName
                                  \/ "constraint" \in DOMAIN st
                                     /\ st.constraint = constraintNameOf(tableName, fieldName))

OnlyNullabilityDiffers(old, new) ==
    /\ ~StrictEq(old.nonNullable, new.nonNullable)
    /\ old.type = new.type
    /\ StrictEq(old.primaryKey, new.primaryKey)
    /\ deepEqual(old.default, new.default)
    /\ deepEqual(old.foreignKey, new.foreignKey)

C25_NullabilityChange ==
    pc = "migrated" =>
        \A both \in FieldsOfBoth :
            ~StrictEq(both.old.nonNullable, both.new.nonNullable) =>
                /\ rejects = {} => migration.t = "ok"
                /\ migration.t = "ok" =>
                      LET sql == migration.v.sql
                          stmts == NullabilityStatements(sql, both.table, both.new.name)
                      IN IF target = POSTGRESQL
                         THEN stmts = <<[kind |-> IF Truthy(both.new.nonNullable)
                                                  THEN "ALTER COLUMN SET NOT NULL"
                                                  ELSE "ALTER COLUMN DROP NOT NULL",
                                         table |-> both.table, column |-> both.new.name]>>
                         ELSE /\ stmts = <<>>
                              /\ OnlyNullabilityDiffers(both.old, both.new) =>
                                    StatementsOn(sql, both.table, both.new.name) = <<>>

\* PostgreSQL: a field made non-nullable and nothing else
C25_Witness ==
    /\ Migrated
    /\ target = POSTGRESQL
    /\ \E both \in FieldsOfBoth :
          /\ OnlyNullabilityDiffers(both.old, both.new)
          /\ Truthy(both.new.nonNullable)
          /\ Len(StatementsOn(migration.v.sql, both.table, both.new.name)) = 1

\* PostgreSQL: a field made nullable
C25_WitnessDrop ==
    /\ Migrated
    /\ target = POSTGRESQL
    /\ \E both \in FieldsOfBoth :
          /\ ~StrictEq(both.old.nonNullable, both.new.nonNullable)
          /\ ~Truthy(both.new.nonNullable)
          /\ NullabilityStatements(migration.v.sql, both.table, both.new.name) # <<>>

\* SQLite: the same change and an empty migration
C25_WitnessSqlite ==
    /\ Migrated
    /\ IsSqlite(target)
    /\ \E both \in FieldsOfBoth : OnlyNullabilityDiffers(both.old, both.new)
    /\ migration.v.sql = <<>>

(***************************************************************************)
(* C26: the normalization of a default expression changes only the names   *)
(* of function-call nodes, which it uppercases, in the top-level function  *)
(* call and in the function calls nested as arguments of function calls at *)
(* any depth; every other part, an object that is not a function call      *)
(* included, is left as it is; normalizing a normalized expression changes *)
(* nothing.                                                                *)
(***************************************************************************)
IsFunctionCall(expression) ==
    expression.t = "object" /\ ~expression.isArray /\ HasKey(expression, "$func")

\* the normalization as the specification describes it
RECURSIVE NormalizedAsDescribed(_)
NormalizedAsDescribed(expression) ==
    IF ~IsFunctionCall(expression) THEN expression
    ELSE [expression EXCEPT !.vals =
            [i \in 1..Len(expression.keys) |->
                IF expression.keys[i] # "$func" THEN expression.vals[i]
                ELSE LET funcExpr == expression.vals[i]
                     IN JObj([n \in 1..Len(funcExpr.keys) |-> toUpperCase(funcExpr.keys[n])],
                             [n \in 1..Len(funcExpr.keys) |->
                                 JArr([j \in 1..Len(funcExpr.vals[n].vals) |->
                                         LET arg == funcExpr.vals[n].vals[j]
                                         IN IF IsFunctionCall(arg)
                                            THEN NormalizedAsDescribed(arg)
                                            ELSE arg])])]]

\* the expression trees of the bootstraps that reached the compiler, with
\* the default they come from
NormalizedDefaults ==
    {[default |-> ModelOf(k).tables[i].fields[j].default,
      normalized |-> initial[k].v.sql[s].columns[j].default.input] :
        <<k, i, j, s>> \in
            {q \in {"A", "B"} \X (1..MaxTables) \X (1..MaxFields) \X (1..(2 * MaxTables)) :
                /\ initial[q[1]].t = "ok"
                /\ q[2] <= Len(ModelOf(q[1]).tables)
                /\ q[3] <= Len(ModelOf(q[1]).tables[q[2]].fields)
                /\ q[4] <= Len(initial[q[1]].v.sql)
                /\ initial[q[1]].v.sql[q[4]].kind = "CREATE TABLE"
                /\ initial[q[1]].v.sql[q[4]].table = ModelOf(q[1]).tables[q[2]].name
                /\ initial[q[1]].v.sql[q[4]].columns[q[3]].default.sql = "compiled"}}

C26_NormalizationAsDescribed ==
    \A d \in NormalizedDefaults :
        /\ d.normalized = NormalizedAsDescribed(d.default)
        /\ normalizeExpression(d.normalized) = d.normalized

\* an expression of function calls and of objects without a function call inside
RECURSIVE FunctionCallsOnlyInArguments(_)
FunctionCallsOnlyInArguments(expression) ==
    IF expression.t # "object" THEN TRUE
    ELSE IF IsFunctionCall(expression)
    THEN LET funcExpr == Get(expression, "$func")
         IN /\ expression.keys = <<"$func">>
            /\ \A n \in 1..Len(funcExpr.keys) : \A j \in 1..Len(funcExpr.vals[n].vals) :
                  FunctionCallsOnlyInArguments(funcExpr.vals[n].vals[j])
    ELSE \A i \in 1..Len(expression.vals) :
            /\ ~IsFunctionCall(expression.vals[i])
            /\ FunctionCallsOnlyInArguments(expression.vals[i])

\* the description for the expressions whose function calls are the top-level
\* call and arguments of function calls, and the idempotence for all
C26_FunctionCallsInArguments ==
    \A d \in NormalizedDefaults :
        /\ FunctionCallsOnlyInArguments(d.default) =>
              d.normalized = NormalizedAsDescribed(d.default)
        /\ normalizeExpression(d.normalized) = d.normalized

(***************************************************************************)
(* C27: on PostgreSQL, after the bootstrap of the old snapshot and the     *)
(* migration of the diff have been executed in order, every table of the   *)
(* new snapshot has, for each of read, create, update and delete, a policy *)
(* whose condition is the one the new snapshot declares.                   *)
(***************************************************************************)
\* the table has the policy of the operation with that condition
HasPolicy(db, table, op) ==
    \E p \in db.policies :
       /\ p.table = table.name
       /\ p.name = policyNameOf(table.name, op)
       /\ p.for = PolicyFor[op].for
       /\ p.condition.input = table.accessControl[op]

C27_PoliciesOfTarget ==
    (PgMigratedFromDiff /\ PgMigrated.ok) =>
        \A i \in 1..Len(modelB.tables) : \A o \in 1..Len(Operations) :
            HasPolicy(PgMigrated, modelB.tables[i], Operations[o])

\* the same for the tables that are new or whose four conditions are those
\* of the old snapshot
C27_PoliciesOfNewAndUnchangedTables ==
    (PgMigratedFromDiff /\ PgMigrated.ok) =>
        \A i \in 1..Len(modelB.tables) :
            LET table == modelB.tables[i]
            IN (\/ table.name \notin Names(modelA.tables)
                \/ \A o \in 1..Len(Operations) :
                      deepEqual(TableOf(modelA, table.name).accessControl[Operations[o]],
                                table.accessControl[Operations[o]])) =>
                  \A o \in 1..Len(Operations) : HasPolicy(PgMigrated, table, Operations[o])

(***************************************************************************)
(* C28: on PostgreSQL, after the bootstrap of the old snapshot and the     *)
(* migration of the diff have been executed in order, the foreign-key      *)
(* constraints of the database are those that the bootstrap of the new     *)
(* snapshot creates, the constraints of the fields of added tables         *)
(* included.                                                               *)
(***************************************************************************)
\* the two scripts were accepted, and the snapshots reference their own tables
PgMigratedClosed ==
    /\ PgMigratedFromDiff
    /\ initial["B"].t = "ok"
    /\ PgMigrated.ok
    /\ Closed(modelA)
    /\ Closed(modelB)

\* the constraints in the database that the bootstrap of the new snapshot builds
ConstraintsOfTarget == PgExecuteAll(EmptyPgDatabase, initial["B"].v.sql).constraints

C28_ConstraintsOfTarget ==
    PgMigratedClosed => PgMigrated.constraints = ConstraintsOfTarget

\* the same for the constraints of the tables of both snapshots
C28_ConstraintsOfKeptTables ==
    PgMigratedClosed =>
        \A c \in PgMigrated.constraints \cup ConstraintsOfTarget :
            c.table \in Names(modelA.tables) =>
                c \in PgMigrated.constraints \cap ConstraintsOfTarget

(***************************************************************************)
(* C29: on PostgreSQL, every fieldsModified entry of the diff has at least *)
(* one statement on its field in the migration, whichever of type,         *)
(* nonNullable, primaryKey, default and foreignKey changed.                *)
(***************************************************************************)
\* the fieldsModified entries of the diff, with their table
ModifiedFields ==
    {[table |-> dbDiff.tables.modified[m].tableName,
      entry |-> dbDiff.tables.modified[m].fieldsModified[f]] :
        <<m, f>> \in {p \in (1..MaxTables) \X (1..MaxFields) :
                        /\ p[1] <= Len(dbDiff.tables.modified)
                        /\ p[2] <= Len(dbDiff.tables.modified[p[1]].fieldsModified)}}

C29_EveryChangeHasAStatement ==
    (Migrated /\ target = POSTGRESQL) =>
        \A mf \in ModifiedFields :
            StatementsOn(migration.v.sql, mf.table, mf.entry.field.name) # <<>>

\* the same for the entries that record a change of another attribute than
\* the primary key
C29_ChangesButPrimaryKey ==
    (Migrated /\ target = POSTGRESQL) =>
        \A mf \in ModifiedFields :
            (\E attribute \in {"type", "nonNullable", "default", "foreignKey"} :
                Truthy(mf.entry.changes[attribute])) =>
                   StatementsOn(migration.v.sql, mf.table, mf.entry.field.name) # <<>>

(***************************************************************************)
(* C30: the two parts of a diff agree on access control: a table has an    *)
(* entry in tables.modified with accessControlChanged true exactly when it *)
(* is in both snapshots and has an entry in accessControl.tables; every    *)
(* added table has an entry in accessControl.tables and no removed table   *)
(* has one.                                                                *)
(***************************************************************************)
\* the tables with an entry in accessControl.tables
WithAccessControlEntry ==
    {dbDiff.accessControl.tables[i].tableName : i \in 1..Len(dbDiff.accessControl.tables)}

\* the tables with an entry of tables.modified that says accessControlChanged
WithAccessControlChanged ==
    {dbDiff.tables.modified[i].tableName :
        i \in {j \in 1..Len(dbDiff.tables.modified) :
                 dbDiff.tables.modified[j].accessControlChanged}}

C30_PartsAgreeOnAccessControl ==
    Diffed =>
        /\ WithAccessControlChanged
              = (Names(modelA.tables) \cap Names(modelB.tables)) \cap WithAccessControlEntry
        /\ Names(dbDiff.tables.added) \subseteq WithAccessControlEntry
        /\ Names(dbDiff.tables.removed) \cap WithAccessControlEntry = {}

\* a table with changed conditions next to a removed table
C30_Witness ==
    /\ Diffed
    /\ WithAccessControlChanged # {}
    /\ dbDiff.tables.removed # <<>>

\* an added table next to a modified table whose conditions are the same
C30_WitnessAdded ==
    /\ Diffed
    /\ dbDiff.tables.added # <<>>
    /\ \E i \in 1..Len(dbDiff.tables.modified) :
          /\ ~dbDiff.tables.modified[i].accessControlChanged
          /\ dbDiff.tables.modified[i].tableName \notin WithAccessControlEntry

====
